---- MODULE Spec2Model ----
(***************************************************************************)
(* TextGenerationPipeline (src/src/max/pipelines/pipeline.py): the batch   *)
(* orchestrator. One driver calls next_token(batch, num_steps) and         *)
(* release(context); next_token runs prepare_batch, the multi-step loop,   *)
(* the host copy, kv_manager.step and the response walk.                   *)
(*                                                                         *)
(* The request contexts (InputContext) and the KV cache manager live       *)
(* outside pipeline.py: their operations follow the contract of the design *)
(* specification (sections 3, 4 and 6).                                    *)
(***************************************************************************)
EXTENDS Integers, Sequences, FiniteSets, TLC

\* ---------------------------------------------------------------- bounds
\* calculate_max_seq_len(pipeline_config, huggingface_config): the model's
\* maximum sequence length, a configuration value.
MaxSeqLen == 3
\* longest prompt a caller hands in
MaxPrompt == 2
\* largest num_steps a caller asks for
MaxReq == 3
\* a caller hands a context in again only while fewer than MaxPending of its
\* completion tokens are still waiting to be returned
MaxPending == 1
\* the largest upper bound upper_bounded_default is applied to on its own
MaxBound == 6

\* ------------------------------------------------------- program values
Contexts == {1, 2}
\* token ids the sampler can produce
Vocab == {0, 1}
\* self._eos_token_id
EosTokenIds == {0}
\* Python's None for an optional int: <<>>, and <<n>> for the int n
None == << >>
Some(n) == <<n>>
\* context.max_length values a caller may set
MaxLengthChoices == {None, Some(2), Some(MaxSeqLen + 1)}
\* num_steps values a caller may pass
NumStepsChoices == {0, 1, 2, MaxReq}
\* requested step counts that are zero or negative
NonPositiveChoices == {0 - MaxReq, 0 - 1, 0}
\* prompt lengths of the contexts a caller creates
PromptChoices == {1, MaxPrompt}
\* batches: non-empty lists of distinct contexts, in any order
Batches == {<<c>> : c \in Contexts} \cup
           {<<c, d>> : <<c, d>> \in {p \in Contexts \X Contexts : p[1] # p[2]}}

ACTIVE == "ACTIVE"
END_OF_SEQUENCE == "END_OF_SEQUENCE"
MAXIMUM_LENGTH == "MAXIMUM_LENGTH"
\* TextGenerationStatus.is_done
is_done(status) == status # ACTIVE

NoError == [type |-> "None", site |-> "", id |-> 0, length |-> 0, bound |-> 0]

\* context.json_schema: None, a schema the grammar compiler accepts, one it
\* rejects
NoSchema == "none"
JsonSchemaChoices == {NoSchema, "valid", "invalid"}
\* context.matcher: None, or the GrammarMatcher set by set_matcher
NoMatcher == "none"
GrammarMatcher == "matcher"
\* context.log_probabilities (top-n) values a caller may set
LogProbabilitiesChoices == {0, 1}
\* a bitmask row as torch.full(..., -1) leaves it; a row filled by the
\* matcher of context c is c
Permissive == 0
\* `bitmask = None`
NoBitmask == [present |-> FALSE, form |-> "none", rows |-> << >>]
\* model_inputs before prepare_batch has built them
NoInputs == [step |-> 0 - 1, tokens |-> << >>]
\* the last status a next_token call reported for a context: none yet
NotReported == "NONE"

VARIABLES
    ctx,              \* the request contexts: current_length, active_length, ...
    claimed,          \* kv_manager: the cache ids that hold a slot
    pc,               \* position of the driver / of next_token
    batch,            \* context_batch of the running call
    requested,        \* num_steps as passed to next_token
    num_steps,        \* num_steps local (clamped in prepare_batch)
    k,                \* index of the for loops over the batch (1-based)
    i,                \* step index of the multi-step loop and of the walk
    generated_tokens, \* device buffer: one row per batch index
    generated_tokens_host, \* its host copy
    status,           \* status local of the response walk
    res,              \* the response under construction / returned
    raised,           \* the exception that ended the call, or NoError
    trace,            \* calls made by the running next_token, in order
    start,            \* contexts and claims as they were when the call began
    mode,             \* "first" | "replay": second run of the same call;
                      \* "history": the reported statuses are followed;
                      \* "pending": contexts come back with pending tokens
    saved,            \* the first run's results, kept for the second run
    config,           \* pipeline_config and the collaborators' capabilities
    bitmask,          \* bitmask local of prepare_batch / next_token
    seq_ids_and_prompts,           \* id -> length of the entry given to fetch
    seq_ids_and_untrimmed_lengths, \* id -> active_length before fetch
    curr_step_inputs, \* model inputs of the step to execute
    batch_log_probabilities, \* one entry per step: computed, or None
    seq_ids_and_new_tokens, \* id -> the tokens given to kv_manager.step
    history,          \* per context: schema compilations attempted so far
                      \* and the last status reported since its release
    executions,       \* the prepare_batch executions that share the cache
                      \* manager, each with its position and what it observed
    evaluation        \* a function applied on its own: arguments and result

vars == <<ctx, claimed, pc, batch, requested, num_steps, k, i,
          generated_tokens, generated_tokens_host, status, res, raised,
          trace, start, mode, saved, config, bitmask, seq_ids_and_prompts,
          seq_ids_and_untrimmed_lengths, curr_step_inputs,
          batch_log_probabilities, seq_ids_and_new_tokens, history,
          executions, evaluation>>

callVars == <<batch, requested>>
\* locals of prepare_batch and of the loop besides the token buffers
prepVars == <<bitmask, seq_ids_and_prompts, seq_ids_and_untrimmed_lengths>>
loopVars == <<curr_step_inputs, batch_log_probabilities>>
\* what the specifications of a single function or of two executions use
otherVars == <<executions, evaluation>>

\* ---------------------------------------------------------------- helpers
Min(a, b) == IF a < b THEN a ELSE b
Ids(b) == {b[j] : j \in DOMAIN b}
Event(op, ids, ok, arg) == [op |-> op, ids |-> ids, ok |-> ok, arg |-> arg]
Count(op) == Cardinality({j \in DOMAIN trace : trace[j].op = op})
Pos(op) == {j \in DOMAIN trace : trace[j].op = op}
EmptyRows(b) == [j \in DOMAIN b |-> << >>]

\* ------------------------------------------------------- request context
RequestContext(prompt_len, max_length, json_schema, log_probabilities) ==
    [current_length |-> prompt_len, active_length |-> prompt_len,
     max_length |-> max_length, outstanding |-> << >>,
     outstanding_log_probabilities |-> << >>,
     json_schema |-> json_schema, matcher |-> NoMatcher,
     log_probabilities |-> log_probabilities,
     log_probabilities_echo |-> FALSE]
\* a context without structured output and without log-probabilities
NewContext(prompt_len, max_length) ==
    RequestContext(prompt_len, max_length, NoSchema, 0)

\* context.update(new_token, log_probabilities, is_eos): the token joins
\* the history, it is the one active token, and it is queued for the caller
context_update(c, new_token, log_probabilities) ==
    [c EXCEPT !.current_length = @ + 1,
              !.active_length = 1,
              !.outstanding = Append(@, new_token),
              !.outstanding_log_probabilities = Append(@, log_probabilities)]

\* context.set_matcher(matcher)
context_set_matcher(c, matcher) == [c EXCEPT !.matcher = matcher]
\* context.jump_ahead(token): the forced token joins the pending tokens
context_jump_ahead(c, token) ==
    [c EXCEPT !.current_length = @ + 1, !.active_length = @ + 1]
\* context.bump_token_indices(start_idx): the pending tokens begin
\* start_idx tokens later
context_bump_token_indices(c, start_idx) ==
    [c EXCEPT !.active_length = @ - start_idx]

\* ------------------------------------------------------ upper_bounded_default
\* a default above the upper bound clamped instead of rejected
upper_bounded_default_clamped(upper_bound, default) ==
    IF default = None
    THEN [raises |-> FALSE, value |-> upper_bound]
    ELSE [raises |-> FALSE, value |-> Min(default[1], upper_bound)]
\* the error raised already when the default equals the upper bound
upper_bounded_default_inclusive(upper_bound, default) ==
    IF default = None
    THEN [raises |-> FALSE, value |-> upper_bound]
    ELSE IF default[1] >= upper_bound
         THEN [raises |-> TRUE, value |-> default[1]]
         ELSE [raises |-> FALSE, value |-> default[1]]
upper_bounded_default(upper_bound, default) ==
    IF default = None
    THEN [raises |-> FALSE, value |-> upper_bound]
    ELSE IF default[1] > upper_bound
         THEN [raises |-> TRUE, value |-> default[1]]
         ELSE [raises |-> FALSE, value |-> default[1]]

\* ------------------------------------------------------ calculate_num_steps
num_available_steps(context) ==
    MaxSeqLen - (context.current_length - context.active_length)

\* the two branches of the final conditional swapped
calculate_num_steps_swapped(n, context) ==
    IF num_available_steps(context) <= 0
    THEN [raises |-> TRUE, value |-> n]
    ELSE [raises |-> FALSE,
          value |-> IF num_available_steps(context) > n
                    THEN num_available_steps(context) ELSE n]
\* `< 0` for `<= 0`
calculate_num_steps_strict(n, context) ==
    IF num_available_steps(context) < 0
    THEN [raises |-> TRUE, value |-> n]
    ELSE [raises |-> FALSE,
          value |-> IF num_available_steps(context) > n
                    THEN n ELSE num_available_steps(context)]
calculate_num_steps(n, context) ==
    IF num_available_steps(context) <= 0
    THEN [raises |-> TRUE, value |-> n]
    ELSE [raises |-> FALSE,
          value |-> IF num_available_steps(context) > n
                    THEN n ELSE num_available_steps(context)]

\* ------------------------------------------------------------ kv_manager
\* kv_manager.contains(seq_id)
kv_contains(slots, seq_id) == seq_id \in slots
\* kv_manager.external_claim([seq_id])
kv_external_claim(slots, seq_id) == slots \cup {seq_id}
\* kv_manager.release(seq_id)
kv_release(slots, seq_id) == slots \ {seq_id}

\* prepare_batch: `if not kv_manager.contains(context.cache_seq_id)`
needs_claim_always(slots, seq_id) == TRUE
needs_claim_never(slots, seq_id) == FALSE
needs_claim(slots, seq_id) == ~kv_contains(slots, seq_id)

\* next_token: `status = TextGenerationStatus.ACTIVE` at the head of each
\* request's walk
walk_start_status_kept(previous) == previous
walk_start_status(previous) == ACTIVE

\* next_token: `if status.is_done: break`
walk_breaks_never(st) == FALSE
walk_breaks(st) == is_done(st)

\* next_token: the completion test after context.update
\* the length test before the EOS test
status_after_length_first(st, is_eos, current_length, max_length) ==
    IF current_length = max_length THEN MAXIMUM_LENGTH
    ELSE IF is_eos THEN END_OF_SEQUENCE
    ELSE st
status_after(st, is_eos, current_length, max_length) ==
    IF is_eos THEN END_OF_SEQUENCE
    ELSE IF current_length = max_length THEN MAXIMUM_LENGTH
    ELSE st

\* ------------------------------------------------------------ prepare_batch
\* the bitmask prepare_batch starts from, for a batch b
initial_bitmask(enable_structured_output, b) ==
    IF enable_structured_output
    THEN [present |-> TRUE, form |-> "packed",
          rows |-> [j \in DOMAIN b |-> Permissive]]
    ELSE NoBitmask

\* `if context.json_schema and context.matcher is None`
needs_matcher(context) ==
    context.json_schema # NoSchema /\ context.matcher = NoMatcher

\* `if not ...enable_structured_output: raise ValueError(msg)`
schema_rejected_never(enable_structured_output, context) == FALSE
schema_rejected(enable_structured_output, context) ==
    needs_matcher(context) /\ ~enable_structured_output

\* self._grammar_compiler.compile_json_schema(...): does it return a grammar
compile_json_schema(json_schema) == json_schema = "valid"

\* `context.json_schema = None` in the except branch
json_schema_after_failure_kept(json_schema) == json_schema
json_schema_after_failure(json_schema) == NoSchema

\* context.matcher.find_jump_forward_string() encoded by the tokenizer: the
\* forced tokens, possibly none. The grammar forces a token only while the
\* context is shorter than MaxPrompt, so the pending tokens stay within
\* MaxPrompt.
jump_forward_tokens(context) ==
    IF context.current_length < MaxPrompt THEN {<< >>, <<1>>} ELSE {<< >>}

\* `if enable_structured_output and context.matcher`
fills_bitmask(enable_structured_output, context) ==
    enable_structured_output /\ context.matcher # NoMatcher

\* fill_next_token_bitmask(bitmask, index=i), for the 1-based batch index j
bitmask_index_first(j) == 1
bitmask_index(j) == j

\* kv_manager.fetch: the lengths it may leave of an entry of `length`
\* pending tokens; entries shrink only when prefixes are cached
kv_fetch_trimmed(enable_prefix_caching, length) ==
    IF enable_prefix_caching THEN 1..length ELSE {length}

\* `bump_length = untrimmed_length - trimmed_length`
bump_length_trimmed(untrimmed_length, trimmed_length) == trimmed_length
bump_length(untrimmed_length, trimmed_length) ==
    untrimmed_length - trimmed_length

\* -------------------------------------------------------------- next_token
\* `compute_log_probabilities = any(batch_top_n)`
compute_log_probabilities(contexts, b) ==
    \E j \in DOMAIN b : contexts[b[j]].log_probabilities # 0

\* what the executor's compute_log_probabilities does besides returning:
\* LlamaModelBase copies the next-token logits, the sampled tokens and the
\* input tokens to the host; PipelineModel raises NotImplementedError and
\* next_token logs a warning
HostReads == {"logits.to_numpy", "next_token_logits.to_numpy",
              "next_tokens.to_numpy", "tokens.to_numpy"}
executor_compute_log_probabilities(supported, step) ==
    IF supported
    THEN <<Event("next_token_logits.to_numpy", {}, TRUE, step),
           Event("next_tokens.to_numpy", {}, TRUE, step),
           Event("tokens.to_numpy", {}, TRUE, step)>>
    ELSE <<Event("warning", {}, TRUE, step)>>

\* log_probs taken from the step's entry although the entry is None
log_probs_for_step_unchecked(compute, entries, step, context) ==
    compute /\ context.log_probabilities # 0
\* batch_echo: a context of the batch asks for the log-probabilities of its
\* input tokens as well
batch_echo(contexts, b) ==
    \E j \in DOMAIN b : contexts[b[j]].log_probabilities_echo
\* `assert not self.pipeline_config.enable_echo` left out
echo_assertion_skipped(enable_echo) == FALSE
\* `assert not self.pipeline_config.enable_echo` where echo is requested
\* and model_outputs.logits is None
echo_assertion_fails(enable_echo) == enable_echo

\* log_probs of the walk: the entry of the step when one was computed, and
\* in it the element of the context (none where top_n = 0)
log_probs_for_step(compute, entries, step, context) ==
    /\ compute
    /\ entries[step + 1]
    /\ context.log_probabilities # 0

\* LlamaModelBase.prepare_next_token_inputs: the ragged path when the
\* cache strategy uses opaque caches, ValueError for padded token batches
padded_multistep_supported(uses_opaque) == FALSE
padded_multistep_unsupported(uses_opaque) == ~uses_opaque

\* `if i == num_steps - 1: break`
last_iteration_late(step, n) == step = n
last_iteration(step, n) == step = n - 1

\* the bitmask expansion of one loop step. The expansion of a packed mask
\* gives the boolean mask; applied to a mask that is already expanded it
\* either fails or gives a mask that no longer is the matcher's.
expand_bitmask(mask) ==
    IF ~mask.present THEN {[raises |-> FALSE, value |-> mask]}
    ELSE IF mask.form = "packed"
    THEN {[raises |-> FALSE, value |-> [mask EXCEPT !.form = "bool"]]}
    ELSE {[raises |-> TRUE, value |-> mask],
          [raises |-> FALSE, value |-> [mask EXCEPT !.form = "expanded_twice"]]}

\* -------------------------------------------------------------------- Init
NoConfig == [enable_structured_output |-> FALSE,
             enable_prefix_caching |-> FALSE,
             log_probabilities_supported |-> FALSE,
             uses_opaque |-> TRUE,
             enable_echo |-> FALSE,
             returns_logits |-> FALSE]
NoExecutions == << >>
NoEvaluation == << >>
\* the result of a function that has not been applied yet
NotApplied == [raises |-> FALSE, value |-> 0 - 1]
NoHistory == [compiles |-> [c \in Contexts |-> 0],
              reported |-> [c \in Contexts |-> NotReported]]

\* what every specification starts from, the contexts and the configuration
\* apart
InitCall ==
    /\ claimed = {}
    /\ pc = "idle"
    /\ batch = << >>
    /\ requested = 0
    /\ num_steps = 0
    /\ k = 0
    /\ i = 0
    /\ generated_tokens = << >>
    /\ generated_tokens_host = << >>
    /\ status = ACTIVE
    /\ res = << >>
    /\ raised = NoError
    /\ trace = << >>
    /\ start = [ctx |-> ctx, claimed |-> {}]
    /\ saved = << >>
    /\ bitmask = NoBitmask
    /\ seq_ids_and_prompts = << >>
    /\ seq_ids_and_untrimmed_lengths = << >>
    /\ curr_step_inputs = NoInputs
    /\ batch_log_probabilities = << >>
    /\ seq_ids_and_new_tokens = << >>
    /\ history = NoHistory
    /\ executions = NoExecutions

Init ==
    /\ ctx \in [Contexts -> {NewContext(p, m) :
                                p \in PromptChoices, m \in MaxLengthChoices}]
    /\ config = NoConfig
    /\ mode = "first"
    /\ InitCall
    /\ evaluation = NoEvaluation

AtDriver == pc = "idle"

\* ------------------------------------------------------------ next_token
\* m with the entry for key c set to v
Put(m, c, v) == [d \in DOMAIN m \cup {c} |-> IF d = c THEN v ELSE m[d]]
\* the forced tokens left out of the context
jump_ahead_all_skipped(context, tokens) == context
\* context.jump_ahead(token) for each token in turn
RECURSIVE jump_ahead_all(_, _)
jump_ahead_all(context, tokens) ==
    IF tokens = << >> THEN context
    ELSE jump_ahead_all(context_jump_ahead(context, Head(tokens)), Tail(tokens))

\* the driver hands a context in while it holds fewer pending completion
\* tokens than this
PendingLimit == IF mode = "pending" THEN MaxPending + 1 ELSE MaxPending
\* the step counts the caller asks for
StepsOffered ==
    IF mode = "nonpositive" THEN NonPositiveChoices \cup {1, 2}
    ELSE NumStepsChoices
\* entry of next_token and of prepare_batch, up to the claim loop
NextToken(b, n) ==
    /\ AtDriver
    /\ mode # "replay"
    /\ n \in StepsOffered
    /\ \A j \in DOMAIN b : Len(ctx[b[j]].outstanding) < PendingLimit
    /\ pc' = "claim_cache_rows"
    /\ batch' = b
    /\ requested' = n
    /\ num_steps' = n
    /\ k' = 1
    /\ i' = 0
    /\ generated_tokens' = << >>
    /\ generated_tokens_host' = << >>
    /\ status' = ACTIVE
    /\ res' = << >>
    /\ raised' = NoError
    /\ trace' = << >>
    /\ start' = [ctx |-> ctx, claimed |-> claimed]
    /\ bitmask' = initial_bitmask(config.enable_structured_output, b)
    /\ seq_ids_and_prompts' = << >>
    /\ seq_ids_and_untrimmed_lengths' = << >>
    /\ curr_step_inputs' = NoInputs
    /\ batch_log_probabilities' = << >>
    /\ seq_ids_and_new_tokens' = << >>
    /\ UNCHANGED <<ctx, claimed, mode, saved, config, history, otherVars>>

\* one iteration of prepare_batch's loop over the batch
ClaimCacheRows ==
    /\ pc = "claim_cache_rows"
    /\ LET c == batch[k]
           enabled == config.enable_structured_output
           compiles == needs_matcher(ctx[c])
           compiled_grammar == compile_json_schema(ctx[c].json_schema)
           compiled ==
               IF ~compiles THEN ctx[c]
               ELSE IF compiled_grammar
                    THEN context_set_matcher(ctx[c], GrammarMatcher)
                    ELSE [ctx[c] EXCEPT
                             !.json_schema = json_schema_after_failure(@)]
           compile_events ==
               IF ~compiles THEN << >>
               ELSE IF compiled_grammar
                    THEN <<Event("compile_json_schema", {c}, TRUE, 0)>>
                    ELSE <<Event("compile_json_schema", {c}, FALSE, 0),
                           Event("warning", {c}, TRUE, 0)>>
           claim == needs_claim(claimed, c)
           claim_events ==
               IF claim
               THEN <<Event("external_claim", {c}, ~kv_contains(claimed, c), 0)>>
               ELSE << >>
       IN  IF schema_rejected(enabled, ctx[c])
           THEN /\ raised' = [type |-> "ValueError",
                              site |-> "json_schema",
                              id |-> c,
                              length |-> ctx[c].current_length,
                              bound |-> MaxSeqLen]
                /\ pc' = "failed"
                /\ UNCHANGED <<ctx, claimed, num_steps, k, trace, prepVars,
                               history>>
           ELSE \E tokens \in IF compiled.matcher # NoMatcher
                              THEN jump_forward_tokens(compiled)
                              ELSE {<< >>} :
                LET context == jump_ahead_all(compiled, tokens)
                    jump_events ==
                        [t \in DOMAIN tokens |->
                            Event("jump_ahead", {c}, TRUE, tokens[t])]
                    steps == calculate_num_steps(num_steps, context)
                    fills == fills_bitmask(enabled, context)
                IN  /\ ctx' = [ctx EXCEPT ![c] = context]
                    /\ history' = IF compiles
                                  THEN [history EXCEPT !.compiles[c] = @ + 1]
                                  ELSE history
                    /\ claimed' = IF claim THEN kv_external_claim(claimed, c)
                                  ELSE claimed
                    /\ seq_ids_and_prompts' =
                          Put(seq_ids_and_prompts, c, context.active_length)
                    /\ seq_ids_and_untrimmed_lengths' =
                          Put(seq_ids_and_untrimmed_lengths, c,
                              context.active_length)
                    /\ IF steps.raises
                       THEN /\ raised' = [type |-> "ValueError",
                                          site |-> "calculate_num_steps",
                                          id |-> c,
                                          length |-> context.current_length,
                                          bound |-> MaxSeqLen]
                            /\ pc' = "failed"
                            /\ trace' = trace \o compile_events \o jump_events
                                              \o claim_events
                            /\ UNCHANGED <<num_steps, k, bitmask>>
                       ELSE /\ num_steps' = steps.value
                            /\ bitmask' =
                                  IF fills
                                  THEN [bitmask EXCEPT
                                           !.rows[bitmask_index(k)] = c]
                                  ELSE bitmask
                            /\ trace' = trace \o compile_events \o jump_events
                                  \o claim_events
                                  \o IF fills
                                     THEN <<Event("fill_next_token_bitmask",
                                                  {c}, TRUE, bitmask_index(k))>>
                                     ELSE << >>
                            /\ k' = k + 1
                            /\ pc' = IF k = Len(batch) THEN "fetch_kv_cache"
                                     ELSE "claim_cache_rows"
                            /\ UNCHANGED raised
    /\ UNCHANGED <<callVars, i, generated_tokens, generated_tokens_host,
                   status, res, start, mode, saved, config, loopVars,
                   seq_ids_and_new_tokens, otherVars>>

\* kv_manager.fetch, which may shorten the entries of seq_ids_and_prompts,
\* the trim loop, prepare_initial_token_inputs, and the allocation of the
\* generated-token buffer in next_token
FetchKvCache ==
    /\ pc = "fetch_kv_cache"
    /\ \E trimmed \in [Ids(batch) -> 0..MaxPrompt] :
          /\ \A c \in Ids(batch) :
                trimmed[c] \in kv_fetch_trimmed(config.enable_prefix_caching,
                                                seq_ids_and_prompts[c])
          /\ LET bump(c) == bump_length(seq_ids_and_untrimmed_lengths[c],
                                        trimmed[c])
                 bumped == {c \in Ids(batch) : bump(c) > 0}
             IN  /\ seq_ids_and_prompts' = trimmed
                 /\ ctx' = [c \in Contexts |->
                              IF c \in bumped
                              THEN context_bump_token_indices(ctx[c], bump(c))
                              ELSE ctx[c]]
                 /\ trace' =
                       Append(trace, Event("fetch", Ids(batch),
                                           Ids(batch) \subseteq claimed,
                                           num_steps))
                       \o SelectSeq([j \in DOMAIN batch |->
                                        Event("bump_token_indices", {batch[j]},
                                              TRUE, bump(batch[j]))],
                                    LAMBDA e : e.arg > 0)
    /\ generated_tokens' = EmptyRows(batch)
    /\ curr_step_inputs' = [step |-> 0, tokens |-> << >>]
    /\ i' = 0
    /\ pc' = IF num_steps > 0 THEN "execute" ELSE "to_numpy"
    /\ UNCHANGED <<claimed, callVars, num_steps, k, generated_tokens_host,
                   status, res, raised, start, mode, saved, config, bitmask,
                   seq_ids_and_untrimmed_lengths, batch_log_probabilities,
                   history,
                   seq_ids_and_new_tokens, otherVars>>

\* self._pipeline_model.execute(curr_step_inputs), then the expansion of the
\* bitmask when there is one
Execute ==
    /\ pc = "execute"
    /\ trace' = Append(trace, Event("execute", {}, TRUE, i))
    /\ \E expanded \in expand_bitmask(bitmask) :
          IF expanded.raises
          THEN /\ raised' = [type |-> "Exception",
                             site |-> "bitmask_expansion",
                             id |-> 0, length |-> 0, bound |-> 0]
               /\ pc' = "failed"
               /\ UNCHANGED bitmask
          ELSE /\ bitmask' = expanded.value
               /\ pc' = "sample_next_token"
               /\ UNCHANGED raised
    /\ UNCHANGED <<ctx, claimed, callVars, num_steps, k, i, generated_tokens,
                   generated_tokens_host, status, res, start, mode, saved,
                   config, seq_ids_and_prompts, seq_ids_and_untrimmed_lengths,
                   loopVars, history,
                   seq_ids_and_new_tokens, otherVars>>

\* sample_logits: one new token per row, appended to the device buffer;
\* compute_log_probabilities when a context asks for it; then the
\* last-iteration test
SampleNextToken ==
    /\ pc = "sample_next_token"
    /\ \E new_tokens \in [DOMAIN batch -> Vocab] :
          /\ mode = "replay" =>
                \A j \in DOMAIN batch :
                    batch[j] # saved.other =>
                        new_tokens[j] = saved.generated_tokens[j][i + 1]
          /\ generated_tokens' =
                [j \in DOMAIN batch |-> Append(generated_tokens[j], new_tokens[j])]
    /\ LET supported == config.log_probabilities_supported
           echo == supported /\ batch_echo(ctx, batch)
           missing == echo /\ ~config.returns_logits
           fatal == missing /\ echo_assertion_fails(config.enable_echo)
           entry == supported /\ ~missing
       IN  IF compute_log_probabilities(ctx, batch)
           THEN /\ trace' = trace \o
                      <<Event("sample", {}, TRUE, i),
                        Event("compute_log_probabilities", {},
                              supported /\ ~fatal, i)>> \o
                      (IF missing THEN <<Event("warning", {}, TRUE, i)>>
                       ELSE (IF echo
                             THEN <<Event("logits.to_numpy", {}, TRUE, i)>>
                             ELSE << >>) \o
                            executor_compute_log_probabilities(supported, i))
                /\ IF fatal
                   THEN /\ raised' = [type |-> "AssertionError",
                                      site |-> "compute_log_probabilities",
                                      id |-> 0, length |-> 0, bound |-> 0]
                        /\ pc' = "failed"
                        /\ UNCHANGED batch_log_probabilities
                   ELSE /\ batch_log_probabilities' =
                              Append(batch_log_probabilities, entry)
                        /\ pc' = IF last_iteration(i, num_steps)
                                 THEN "to_numpy"
                                 ELSE "increment_cache_lengths"
                        /\ UNCHANGED raised
           ELSE /\ trace' = Append(trace, Event("sample", {}, TRUE, i))
                /\ pc' = IF last_iteration(i, num_steps) THEN "to_numpy"
                         ELSE "increment_cache_lengths"
                /\ UNCHANGED <<batch_log_probabilities, raised>>
    /\ UNCHANGED <<ctx, claimed, callVars, num_steps, k, i,
                   generated_tokens_host, status, res, start, mode,
                   saved, config, prepVars, curr_step_inputs, history,
                   seq_ids_and_new_tokens, otherVars>>

\* kv_manager.increment_cache_lengths(kv_cache_inputs, curr_step_inputs)
IncrementCacheLengths ==
    /\ pc = "increment_cache_lengths"
    /\ trace' = Append(trace, Event("increment_cache_lengths", Ids(batch),
                                    Ids(batch) \subseteq claimed, i))
    /\ pc' = "prepare_next_token_inputs"
    /\ UNCHANGED <<ctx, claimed, callVars, num_steps, k, i, generated_tokens,
                   generated_tokens_host, status, res, raised, start, mode,
                   saved, config, prepVars, loopVars, history,
                   seq_ids_and_new_tokens, otherVars>>

\* prepare_next_token_inputs(new_tokens, curr_step_inputs); the next
\* iteration of `for i in range(num_steps)`
PrepareNextTokenInputs ==
    /\ pc = "prepare_next_token_inputs"
    /\ IF padded_multistep_unsupported(config.uses_opaque)
       THEN /\ trace' = Append(trace, Event("prepare_next_token_inputs", {},
                                            FALSE, i))
            /\ raised' = [type |-> "ValueError",
                          site |-> "prepare_next_token_inputs",
                          id |-> 0, length |-> 0, bound |-> 0]
            /\ pc' = "failed"
            /\ UNCHANGED <<curr_step_inputs, i>>
       ELSE /\ trace' = Append(trace, Event("prepare_next_token_inputs", {},
                                            TRUE, i))
            /\ curr_step_inputs' =
                  [step |-> i + 1,
                   tokens |-> [j \in DOMAIN batch |->
                                 generated_tokens[j][Len(generated_tokens[j])]]]
            /\ i' = i + 1
            /\ pc' = IF i + 1 < num_steps THEN "execute" ELSE "to_numpy"
            /\ UNCHANGED raised
    /\ UNCHANGED <<ctx, claimed, callVars, num_steps, k, generated_tokens,
                   generated_tokens_host, status, res, start, mode,
                   saved, config, prepVars, batch_log_probabilities, history,
                   seq_ids_and_new_tokens, otherVars>>

\* the host copy left out
ToNumpy_skipped ==
    /\ pc = "to_numpy"
    /\ pc' = "kv_manager_step"
    /\ UNCHANGED <<ctx, claimed, callVars, num_steps, k, i, generated_tokens,
                   generated_tokens_host, trace, status, res, raised, start,
                   mode, saved, config, prepVars, loopVars, history,
                   seq_ids_and_new_tokens, otherVars>>
\* generated_tokens.to_numpy()
ToNumpy ==
    /\ pc = "to_numpy"
    /\ generated_tokens_host' = generated_tokens
    /\ trace' = Append(trace, Event("to_numpy", {}, TRUE, 0))
    /\ pc' = "kv_manager_step"
    /\ UNCHANGED <<ctx, claimed, callVars, num_steps, k, i, generated_tokens,
                   status, res, raised, start, mode, saved, config, prepVars,
                   loopVars, history,
                   seq_ids_and_new_tokens, otherVars>>

\* kv_manager.step(seq_ids_and_new_tokens)
KvManagerStep ==
    /\ pc = "kv_manager_step"
    /\ seq_ids_and_new_tokens' =
          [c \in Ids(batch) |->
              generated_tokens_host[CHOOSE j \in DOMAIN batch : batch[j] = c]]
    /\ trace' = Append(trace, Event("step", Ids(batch),
                                    Ids(batch) \subseteq claimed, 0))
    /\ k' = 1
    /\ pc' = "prepare_response"
    /\ UNCHANGED <<ctx, claimed, callVars, num_steps, i, generated_tokens,
                   generated_tokens_host, status, res, raised, start, mode,
                   saved, config, prepVars, loopVars, history, otherVars>>

\* head of the response loop for batch index k
PrepareResponse ==
    /\ pc = "prepare_response"
    /\ status' = walk_start_status(status)
    /\ res' = [c \in DOMAIN res \cup {batch[k]} |->
                 IF c = batch[k]
                 THEN [tokens |-> << >>, log_probabilities |-> << >>,
                       status |-> walk_start_status(status)]
                 ELSE res[c]]
    /\ i' = 0
    /\ pc' = IF num_steps > 0 THEN "walk" ELSE "outstanding"
    /\ UNCHANGED <<ctx, claimed, callVars, num_steps, k, generated_tokens,
                   generated_tokens_host, raised, trace, start, mode, saved,
                   config, prepVars, loopVars, history,
                   seq_ids_and_new_tokens, otherVars>>

\* one iteration of the walk over the steps of batch index k
WalkToken ==
    /\ pc = "walk"
    /\ LET c == batch[k]
           next_token == generated_tokens_host[k][i + 1]
           is_eos == next_token \in EosTokenIds
           log_probs == log_probs_for_step(
                            compute_log_probabilities(ctx, batch),
                            batch_log_probabilities, i, ctx[c])
           updated == context_update(ctx[c], next_token, log_probs)
           max_length == upper_bounded_default(MaxSeqLen, updated.max_length)
           st == status_after(status, is_eos, updated.current_length,
                              max_length.value)
       IN  /\ ctx' = [ctx EXCEPT ![c] = updated]
           /\ trace' = Append(trace, Event("update", {c}, TRUE, next_token))
           /\ IF max_length.raises
              THEN /\ raised' = [type |-> "ValueError",
                                 site |-> "upper_bounded_default",
                                 id |-> c,
                                 length |-> max_length.value,
                                 bound |-> MaxSeqLen]
                   /\ pc' = "failed"
                   /\ UNCHANGED <<status, res, i>>
              ELSE /\ status' = st
                   /\ res' = IF st # status
                             THEN [res EXCEPT ![c].status = st] ELSE res
                   /\ i' = i + 1
                   /\ pc' = IF walk_breaks(st) \/ i + 1 = num_steps
                            THEN "outstanding" ELSE "walk"
                   /\ UNCHANGED raised
    /\ UNCHANGED <<claimed, callVars, num_steps, k, generated_tokens,
                   generated_tokens_host, start, mode, saved, config,
                   prepVars, loopVars, history,
                   seq_ids_and_new_tokens, otherVars>>

\* the pending completion tokens left in the context
OutstandingTokens_skipped ==
    /\ pc = "outstanding"
    /\ IF k = Len(batch)
       THEN pc' = "done" /\ UNCHANGED k
       ELSE pc' = "prepare_response" /\ k' = k + 1
    /\ UNCHANGED <<ctx, res, claimed, callVars, num_steps, i,
                   generated_tokens, generated_tokens_host, status, raised,
                   trace, start, mode, saved, config, prepVars, loopVars,
                   history, seq_ids_and_new_tokens, otherVars>>
\* context.outstanding_completion_tokens() drained into the response; then
\* the next batch index, or return
OutstandingTokens ==
    /\ pc = "outstanding"
    /\ LET c == batch[k]
       IN  /\ res' = [res EXCEPT
                         ![c].tokens = @ \o ctx[c].outstanding,
                         ![c].log_probabilities =
                             @ \o ctx[c].outstanding_log_probabilities]
           /\ ctx' = [ctx EXCEPT ![c].outstanding = << >>,
                                 ![c].outstanding_log_probabilities = << >>]
    /\ IF k = Len(batch)
       THEN pc' = "done" /\ UNCHANGED k
       ELSE pc' = "prepare_response" /\ k' = k + 1
    /\ UNCHANGED <<claimed, callVars, num_steps, i, generated_tokens,
                   generated_tokens_host, status, raised, trace, start, mode,
                   saved, config, prepVars, loopVars, history,
                   seq_ids_and_new_tokens, otherVars>>

\* ---------------------------------------------------------------- release
\* release(context) that frees every slot
Release_all(c) ==
    /\ AtDriver
    /\ mode # "replay"
    /\ c \in claimed
    /\ claimed' = {}
    /\ start' = [ctx |-> ctx, claimed |-> claimed']
    /\ history' = [history EXCEPT !.reported[c] = NotReported]
    /\ UNCHANGED <<ctx, pc, callVars, num_steps, k, i, generated_tokens,
                   generated_tokens_host, status, res, raised, trace,
                   mode, saved, config, prepVars, loopVars,
                   seq_ids_and_new_tokens, otherVars>>
\* release(context): kv_manager.release(context.cache_seq_id)
Release(c) ==
    /\ AtDriver
    /\ mode # "replay"
    /\ c \in claimed
    /\ claimed' = kv_release(claimed, c)
    /\ start' = [ctx |-> ctx, claimed |-> claimed']
    /\ history' = [history EXCEPT !.reported[c] = NotReported]
    /\ UNCHANGED <<ctx, pc, callVars, num_steps, k, i, generated_tokens,
                   generated_tokens_host, status, res, raised, trace,
                   mode, saved, config, prepVars, loopVars,
                   seq_ids_and_new_tokens, otherVars>>

\* `return res`: the response goes to the caller and the locals are gone
Return ==
    /\ pc = "done"
    /\ pc' = "idle"
    /\ batch' = << >>
    /\ requested' = 0
    /\ num_steps' = 0
    /\ k' = 0
    /\ i' = 0
    /\ generated_tokens' = << >>
    /\ generated_tokens_host' = << >>
    /\ status' = ACTIVE
    /\ res' = << >>
    /\ trace' = << >>
    /\ start' = [ctx |-> ctx, claimed |-> claimed]
    /\ mode' = IF mode = "replay" THEN "first" ELSE mode
    /\ saved' = << >>
    /\ bitmask' = NoBitmask
    /\ seq_ids_and_prompts' = << >>
    /\ seq_ids_and_untrimmed_lengths' = << >>
    /\ curr_step_inputs' = NoInputs
    /\ batch_log_probabilities' = << >>
    /\ seq_ids_and_new_tokens' = << >>
    /\ history' = IF mode = "history"
                  THEN [history EXCEPT !.reported =
                           [c \in Contexts |->
                               IF c \in DOMAIN res THEN res[c].status
                               ELSE @[c]]]
                  ELSE history
    /\ UNCHANGED <<ctx, claimed, raised, config, otherVars>>

\* the ValueError leaves next_token: nothing is rolled back
Propagate ==
    /\ pc = "failed"
    /\ mode # "replay"
    /\ pc' = "idle"
    /\ batch' = << >>
    /\ requested' = 0
    /\ num_steps' = 0
    /\ k' = 0
    /\ i' = 0
    /\ generated_tokens' = << >>
    /\ generated_tokens_host' = << >>
    /\ status' = ACTIVE
    /\ res' = << >>
    /\ raised' = NoError
    /\ trace' = << >>
    /\ start' = [ctx |-> ctx, claimed |-> claimed]
    /\ bitmask' = NoBitmask
    /\ seq_ids_and_prompts' = << >>
    /\ seq_ids_and_untrimmed_lengths' = << >>
    /\ curr_step_inputs' = NoInputs
    /\ batch_log_probabilities' = << >>
    /\ seq_ids_and_new_tokens' = << >>
    /\ UNCHANGED <<ctx, claimed, mode, saved, config, history, otherVars>>

Next ==
    \/ \E b \in Batches, n \in NumStepsChoices \cup NonPositiveChoices :
          NextToken(b, n)
    \/ ClaimCacheRows
    \/ FetchKvCache
    \/ Execute
    \/ SampleNextToken
    \/ IncrementCacheLengths
    \/ PrepareNextTokenInputs
    \/ ToNumpy
    \/ KvManagerStep
    \/ PrepareResponse
    \/ WalkToken
    \/ OutstandingTokens
    \/ Return
    \/ Propagate
    \/ \E c \in Contexts : Release(c)

Spec == Init /\ [][Next]_vars

\* ------------------------------------------------------ structured output
\* The pipeline with structured output enabled or not; a context carries a
\* json_schema or none.
InitStructured ==
    /\ ctx \in [Contexts -> {RequestContext(1, None, s, 0) :
                                s \in JsonSchemaChoices}]
    /\ config \in {[NoConfig EXCEPT !.enable_structured_output = e] :
                       e \in BOOLEAN}
    /\ mode = "first"
    /\ InitCall
    /\ evaluation = NoEvaluation

SpecStructured == InitStructured /\ [][Next]_vars

\* ---------------------------------------------------------- jump-forward
\* Structured output is enabled and every schema handed in compiles, so a
\* matcher may report a forced continuation.
InitJumpAhead ==
    /\ ctx \in [Contexts -> {RequestContext(1, None, s, 0) :
                                s \in {NoSchema, "valid"}}]
    /\ config = [NoConfig EXCEPT !.enable_structured_output = TRUE]
    /\ mode = "first"
    /\ InitCall
    /\ evaluation = NoEvaluation

SpecJumpAhead == InitJumpAhead /\ [][Next]_vars

\* ------------------------------------------------------------------ echo
\* The Llama executor computes log-probabilities; a context may ask for
\* echo; the pipeline is configured with enable_echo or not and the
\* executor returns the full logits only when it is.
InitEcho ==
    /\ ctx \in [Contexts ->
                   {[RequestContext(1, None, NoSchema, t)
                        EXCEPT !.log_probabilities_echo = e /\ t # 0] :
                       t \in LogProbabilitiesChoices, e \in BOOLEAN}]
    /\ config \in {[NoConfig EXCEPT !.log_probabilities_supported = TRUE,
                                     !.enable_echo = e,
                                     !.returns_logits = e /\ l] :
                       e \in BOOLEAN, l \in BOOLEAN}
    /\ mode = "first"
    /\ InitCall
    /\ evaluation = NoEvaluation

SpecEcho == InitEcho /\ [][Next]_vars

\* ------------------------------------------------------ padded KV cache
\* The Llama executor with a cache strategy that does not use opaque
\* caches (padded token batches).
InitPadded ==
    /\ ctx \in [Contexts -> {NewContext(p, None) : p \in PromptChoices}]
    /\ config = [NoConfig EXCEPT !.uses_opaque = FALSE]
    /\ mode = "first"
    /\ InitCall
    /\ evaluation = NoEvaluation

SpecPadded == InitPadded /\ [][Next]_vars

\* ------------------------------------------------- non-positive num_steps
\* Callers that ask for zero or a negative number of steps, or for one or two.
InitNonPositive ==
    /\ ctx \in [Contexts -> {NewContext(p, None) : p \in PromptChoices}]
    /\ config = NoConfig
    /\ mode = "nonpositive"
    /\ InitCall
    /\ evaluation = NoEvaluation

SpecNonPositive == InitNonPositive /\ [][Next]_vars

\* ------------------------------------------------------- log-probabilities
\* An executor that supports log-probabilities or not; a context asks for
\* them or not.
InitLogProbabilities ==
    /\ ctx \in [Contexts -> {RequestContext(1, None, NoSchema, t) :
                                t \in LogProbabilitiesChoices}]
    /\ config \in {[NoConfig EXCEPT !.log_probabilities_supported = l] :
                       l \in BOOLEAN}
    /\ mode = "first"
    /\ InitCall
    /\ evaluation = NoEvaluation

SpecLogProbabilities == InitLogProbabilities /\ [][Next]_vars

\* --------------------------------------------------------- prefix caching
\* The KV cache manager caches prefixes: fetch may shorten the entries.
InitPrefixCaching ==
    /\ ctx \in [Contexts -> {NewContext(p, None) : p \in PromptChoices}]
    /\ config = [NoConfig EXCEPT !.enable_prefix_caching = TRUE]
    /\ mode = "first"
    /\ InitCall
    /\ evaluation = NoEvaluation

SpecPrefixCaching == InitPrefixCaching /\ [][Next]_vars

\* ------------------------------------------------------ reported statuses
\* The status each next_token call reported for a context is remembered
\* until the context is released.
InitHistory ==
    /\ ctx \in [Contexts -> {NewContext(p, m) :
                                p \in PromptChoices, m \in MaxLengthChoices}]
    /\ config = NoConfig
    /\ mode = "history"
    /\ InitCall
    /\ evaluation = NoEvaluation

SpecHistory == InitHistory /\ [][Next]_vars

\* --------------------------------------------------------- pending tokens
\* A call that failed in the response walk leaves the token it wrote queued
\* in the context; the driver hands such a context in again.
InitPending ==
    /\ ctx \in [Contexts -> {NewContext(1, m) : m \in MaxLengthChoices}]
    /\ config = NoConfig
    /\ mode = "pending"
    /\ InitCall
    /\ evaluation = NoEvaluation

SpecPending == InitPending /\ [][Next]_vars

\* ------------------------------------------------------- two runs of a call
\* The same next_token call is run a second time from the state in which
\* the first run began; the sampler may give context `other` different
\* tokens and gives every other context the tokens of the first run
\* (SampleNextToken). What the first run produced for the other contexts
\* is kept in `saved`.
Replay(other) ==
    /\ pc = "done"
    /\ mode = "first"
    /\ Len(batch) > 1
    /\ other \in Ids(batch)
    /\ saved' = [other |-> other,
                 generated_tokens |->
                     [j \in DOMAIN batch |->
                         IF batch[j] = other THEN << >>
                         ELSE generated_tokens[j]],
                 num_steps |-> num_steps,
                 executes |-> Count("execute"),
                 other_status |-> res[other].status,
                 other_tokens |-> Len(res[other].tokens),
                 res |-> [c \in Ids(batch) \ {other} |-> res[c]],
                 ctx |-> [c \in Ids(batch) \ {other} |-> ctx[c]],
                 updates |-> [c \in Ids(batch) \ {other} |->
                                 SelectSeq(trace, LAMBDA e :
                                     e.op = "update" /\ e.ids = {c})]]
    /\ mode' = "replay"
    /\ ctx' = start.ctx
    /\ claimed' = start.claimed
    /\ pc' = "claim_cache_rows"
    /\ num_steps' = requested
    /\ k' = 1
    /\ i' = 0
    /\ generated_tokens' = << >>
    /\ generated_tokens_host' = << >>
    /\ status' = ACTIVE
    /\ res' = << >>
    /\ raised' = NoError
    /\ trace' = << >>
    /\ bitmask' = initial_bitmask(config.enable_structured_output, batch)
    /\ seq_ids_and_prompts' = << >>
    /\ seq_ids_and_untrimmed_lengths' = << >>
    /\ curr_step_inputs' = NoInputs
    /\ batch_log_probabilities' = << >>
    /\ seq_ids_and_new_tokens' = << >>
    /\ UNCHANGED <<callVars, start, config, history, otherVars>>

\* the driver of the two-run check only calls next_token
NextPair ==
    \/ \E b \in Batches, n \in NumStepsChoices : NextToken(b, n)
    \/ ClaimCacheRows
    \/ FetchKvCache
    \/ Execute
    \/ SampleNextToken
    \/ IncrementCacheLengths
    \/ PrepareNextTokenInputs
    \/ ToNumpy
    \/ KvManagerStep
    \/ PrepareResponse
    \/ WalkToken
    \/ OutstandingTokens
    \/ Return
    \/ Propagate
    \/ \E other \in Contexts : Replay(other)

SpecPair == Init /\ [][NextPair]_vars

\* ------------------------------------------- two prepare_batch executions
\* Two executions of prepare_batch on one kv_manager, each over its own
\* batch, whose statements interleave: kv_manager.contains and
\* kv_manager.external_claim are separate calls with nothing held between
\* them. Only the claim protocol of the loop is followed.
Executions == {1, 2}
\* what the claim protocol leaves alone
protocolVars == <<ctx, pc, callVars, num_steps, k, i, generated_tokens,
                  generated_tokens_host, status, res, raised, start, mode,
                  saved, config, prepVars, loopVars, seq_ids_and_new_tokens,
                  history, evaluation>>

\* prepare_batch(batch, num_steps) is entered by execution e
PrepareBatch(e, b) ==
    /\ e \notin DOMAIN executions
    /\ executions' = Put(executions, e,
                         [pc |-> "contains", batch |-> b, k |-> 1,
                          contains |-> FALSE])
    /\ UNCHANGED <<claimed, trace, protocolVars>>

\* `if not kv_manager.contains(context.cache_seq_id)`
KvContains(e) ==
    /\ e \in DOMAIN executions
    /\ executions[e].pc = "contains"
    /\ LET c == executions[e].batch[executions[e].k]
       IN  /\ executions' =
                 [executions EXCEPT
                     ![e].contains = kv_contains(claimed, c),
                     ![e].pc = IF needs_claim(claimed, c)
                               THEN "external_claim" ELSE "gather"]
           /\ trace' = Append(trace, Event("contains", {c},
                                           kv_contains(claimed, c), e))
    /\ UNCHANGED <<claimed, protocolVars>>

\* kv_manager.external_claim([context.cache_seq_id])
KvExternalClaim(e) ==
    /\ e \in DOMAIN executions
    /\ executions[e].pc = "external_claim"
    /\ LET c == executions[e].batch[executions[e].k]
       IN  /\ claimed' = kv_external_claim(claimed, c)
           /\ trace' = Append(trace, Event("external_claim", {c},
                                           ~kv_contains(claimed, c), e))
    /\ executions' = [executions EXCEPT ![e].pc = "gather"]
    /\ UNCHANGED protocolVars

\* the rest of the iteration; the next context of the batch, or the end
\* of the loop
GatherTokens(e) ==
    /\ e \in DOMAIN executions
    /\ executions[e].pc = "gather"
    /\ executions' =
          IF executions[e].k = Len(executions[e].batch)
          THEN [executions EXCEPT ![e].pc = "fetch"]
          ELSE [executions EXCEPT ![e].pc = "contains", ![e].k = @ + 1]
    /\ UNCHANGED <<claimed, trace, protocolVars>>

\* kv_manager.fetch(seq_ids_and_prompts, num_steps); prepare_batch returns
KvFetch(e) ==
    /\ e \in DOMAIN executions
    /\ executions[e].pc = "fetch"
    /\ trace' = Append(trace, Event("fetch", Ids(executions[e].batch),
                                    Ids(executions[e].batch) \subseteq claimed,
                                    e))
    /\ executions' = [executions EXCEPT ![e].pc = "returned"]
    /\ UNCHANGED <<claimed, protocolVars>>

InitInterleaved ==
    /\ ctx = [c \in Contexts |-> NewContext(1, None)]
    /\ config = NoConfig
    /\ mode = "first"
    /\ InitCall
    /\ evaluation = NoEvaluation

NextInterleaved ==
    \/ \E e \in Executions, b \in Batches : PrepareBatch(e, b)
    \/ \E e \in Executions : KvContains(e)
    \/ \E e \in Executions : KvExternalClaim(e)
    \/ \E e \in Executions : GatherTokens(e)
    \/ \E e \in Executions : KvFetch(e)

SpecInterleaved == InitInterleaved /\ [][NextInterleaved]_vars

\* ------------------------------------------------- upper_bounded_default
\* upper_bounded_default applied on its own to an upper bound and an
\* optional default.
UpperBounds == 0..MaxBound
Defaults == {None} \cup {Some(d) : d \in 0..(MaxBound + 1)}
\* what the evaluation leaves alone
evaluationVars == <<ctx, claimed, pc, callVars, num_steps, k, i,
                    generated_tokens, generated_tokens_host, status, res,
                    raised, trace, start, mode, saved, config, prepVars,
                    loopVars, seq_ids_and_new_tokens, history, executions>>

InitEvaluation ==
    /\ ctx = [c \in Contexts |-> NewContext(1, None)]
    /\ config = NoConfig
    /\ mode = "first"
    /\ InitCall
    /\ evaluation \in [upper_bound : UpperBounds, default : Defaults,
                        applied : {FALSE}, result : {NotApplied}]

\* upper_bounded_default(upper_bound, default)
Evaluate ==
    /\ ~evaluation.applied
    /\ evaluation' =
          [evaluation EXCEPT
              !.applied = TRUE,
              !.result = upper_bounded_default(evaluation.upper_bound,
                                               evaluation.default)]
    /\ UNCHANGED evaluationVars

NextEvaluation == Evaluate

SpecEvaluation == InitEvaluation /\ [][NextEvaluation]_vars

\* ----------------------------------------------------------- EOS id set
\* The EOS id set as TextGenerationPipeline.__init__ builds it from the
\* eos_token_id it is given and from huggingface_config.eos_token_id, which
\* is absent, an int, a list, or a value of another type.
EosIdChoices == {0, 1, 2}
HuggingfaceEosChoices ==
    {[kind |-> "absent", value |-> << >>], [kind |-> "other", value |-> << >>]}
    \cup {[kind |-> "int", value |-> <<n>>] : n \in EosIdChoices}
    \cup {[kind |-> "list", value |-> l] :
              l \in {<< >>} \cup {<<a>> : a \in EosIdChoices}
                    \cup {<<a, b>> : a \in EosIdChoices, b \in EosIdChoices}}
NoEos == [eos_token_id |-> {}, warning |-> FALSE]

\* self._eos_token_id, and whether a warning is logged
eos_token_id_set(huggingface_eos, eos_token_id) ==
    IF huggingface_eos.kind = "absent"
    THEN [eos_token_id |-> {eos_token_id}, warning |-> FALSE]
    ELSE IF huggingface_eos.kind = "int"
    THEN [eos_token_id |-> {huggingface_eos.value[1]},
          warning |-> huggingface_eos.value[1] # eos_token_id]
    ELSE IF huggingface_eos.kind = "list"
    THEN IF eos_token_id \in Ids(huggingface_eos.value)
         THEN [eos_token_id |-> Ids(huggingface_eos.value), warning |-> FALSE]
         ELSE [eos_token_id |-> {eos_token_id}, warning |-> FALSE]
    ELSE [eos_token_id |-> {eos_token_id}, warning |-> TRUE]

InitEos ==
    /\ ctx = [c \in Contexts |-> NewContext(1, None)]
    /\ config = NoConfig
    /\ mode = "first"
    /\ InitCall
    /\ evaluation \in [eos_token_id : EosIdChoices,
                        huggingface_eos : HuggingfaceEosChoices,
                        applied : {FALSE}, result : {NoEos}]

\* the EOS part of TextGenerationPipeline.__init__
ConstructEos ==
    /\ ~evaluation.applied
    /\ evaluation' =
          [evaluation EXCEPT
              !.applied = TRUE,
              !.result = eos_token_id_set(evaluation.huggingface_eos,
                                          evaluation.eos_token_id)]
    /\ UNCHANGED evaluationVars

NextEos == ConstructEos

SpecEos == InitEos /\ [][NextEos]_vars

\* --------------------------------------------------------------------
\* Properties
\* --------------------------------------------------------------------
\* prepare_batch has run its loop to the end: num_steps is final
StepsFixed ==
    pc \in {"fetch_kv_cache", "execute", "sample_next_token",
            "increment_cache_lengths", "prepare_next_token_inputs",
            "to_numpy", "kv_manager_step", "prepare_response", "walk",
            "outstanding", "done"}
    \/ (pc = "failed" /\ raised.site \in {"upper_bounded_default",
                                           "bitmask_expansion",
                                           "prepare_next_token_inputs"})
\* prepare_batch has returned
Prepared == StepsFixed /\ pc # "fetch_kv_cache"
\* the response walk has begun
InResponse ==
    pc \in {"prepare_response", "walk", "outstanding", "done"}
    \/ (pc = "failed" /\ raised.site = "upper_bounded_default")

IsUpdateOf(c, e) == e.op = "update" /\ e.ids = {c}
\* the tokens context c received through context.update in this call
Updates(c) ==
    LET es == SelectSeq(trace, LAMBDA e : IsUpdateOf(c, e))
    IN  [t \in DOMAIN es |-> es[t].arg]
ClaimsOf(c) ==
    Cardinality({j \in DOMAIN trace :
                    trace[j].op = "external_claim" /\ trace[j].ids = {c}})
Before(opA, opB) ==
    \A a \in Pos(opA), b \in Pos(opB) : a < b
MinOf(S) == CHOOSE m \in S : \A x \in S : m <= x

\* available_steps of context c as the call began
AvailableSteps(c) ==
    MaxSeqLen - (start.ctx[c].current_length - start.ctx[c].active_length)

\* C1: external_claim is invoked only for an id that kv_manager does not
\* hold at that moment, so no id is claimed while it is claimed, and once
\* prepare_batch has returned every cache id of the batch is claimed.
C1_IdempotentClaim ==
    /\ \A j \in DOMAIN trace : trace[j].op = "external_claim" => trace[j].ok
    /\ Prepared => Ids(batch) \subseteq claimed

\* a batch that mixes a context claimed by an earlier call with a new one
C1_Witness ==
    /\ pc = "execute"
    /\ Ids(batch) \cap start.claimed # {}
    /\ Ids(batch) \ start.claimed # {}
    /\ Count("external_claim") = 1

\* C2 (as stated): after preparation the claimed ids are exactly the ids of
\* the batch.
C2_ClaimedEqualsBatch ==
    Prepared => claimed = Ids(batch)

\* C2 (amended): after preparation the claimed ids are the ids claimed
\* when the call began together with the ids of the batch, and the call
\* claimed each batch id that was not yet claimed exactly once and no other.
C2_ClaimedIsStartPlusBatch ==
    Prepared =>
        /\ claimed = start.claimed \cup Ids(batch)
        /\ \A c \in Contexts :
              ClaimsOf(c) = IF c \in Ids(batch) \ start.claimed THEN 1 ELSE 0

\* an id of an earlier call, never released, stays beside the batch's ids
C2_Witness ==
    /\ Prepared
    /\ start.claimed \ Ids(batch) # {}
    /\ Ids(batch) \ start.claimed # {}

\* C3: fetch, increment_cache_lengths and step are called only while every
\* id of the batch is claimed; the claims come before the one fetch, the
\* fetch before every increment, the increments before the one step.
C3_ClaimBeforeUse ==
    /\ \A j \in DOMAIN trace :
          trace[j].op \in {"fetch", "increment_cache_lengths", "step"} =>
              trace[j].ok /\ trace[j].ids = Ids(batch)
    /\ Count("fetch") <= 1
    /\ Count("step") <= 1
    /\ Before("external_claim", "fetch")
    /\ Before("fetch", "increment_cache_lengths")
    /\ Before("fetch", "step")
    /\ Before("increment_cache_lengths", "step")
    /\ Count("increment_cache_lengths") + Count("step") > 0
          => Count("fetch") = 1

C3_Witness ==
    /\ pc = "done"
    /\ Count("external_claim") = 2
    /\ Count("increment_cache_lengths") = 2
    /\ Count("step") = 1

\* C4: the step count prepare_batch returns is
\* min(requested, min over the batch of available_steps), in either order
\* of the batch.
C4_StepCountIsMin ==
    StepsFixed =>
        num_steps = Min(requested,
                        MinOf({AvailableSteps(c) : c \in Ids(batch)}))

\* the first context has more room than the second, which clamps
C4_Witness ==
    /\ pc = "fetch_kv_cache"
    /\ Len(batch) = 2
    /\ AvailableSteps(batch[1]) > AvailableSteps(batch[2])
    /\ requested > AvailableSteps(batch[2])
    /\ requested <= AvailableSteps(batch[1])

\* C5 (as stated): the step count never exceeds max_length - current_length
\* of any context of the batch, current_length as preparation found it.
C5_StepsWithinRoom ==
    StepsFixed =>
        \A c \in Ids(batch) :
            num_steps <= MaxSeqLen - start.ctx[c].current_length

\* C6: a context with available_steps <= 0 makes preparation fail with the
\* ValueError of calculate_num_steps, which names the first such context,
\* its current length and the configured maximum; the call makes no fetch,
\* execute, sample, host copy, step or context.update.
C6_LengthErrorStopsCall ==
    LET bad == {j \in DOMAIN batch : AvailableSteps(batch[j]) <= 0}
    IN  (pc # "idle" /\ bad # {}) =>
            /\ pc \in {"claim_cache_rows", "failed"}
            /\ \A j \in DOMAIN trace : trace[j].op = "external_claim"
            /\ ctx = start.ctx
            /\ pc = "claim_cache_rows" => k <= MinOf(bad)
            /\ pc = "failed" =>
                  /\ raised.type = "ValueError"
                  /\ raised.site = "calculate_num_steps"
                  /\ raised.id = batch[MinOf(bad)]
                  /\ raised.length = start.ctx[batch[MinOf(bad)]].current_length
                  /\ raised.bound = MaxSeqLen

\* the second context of the batch is the one without room
C6_Witness ==
    /\ pc = "failed"
    /\ raised.site = "calculate_num_steps"
    /\ Len(batch) = 2
    /\ raised.id = batch[2]
    /\ batch[1] \in claimed \ start.claimed

\* C7 (as stated): a context whose current_length has reached the length
\* bound when preparation starts is rejected, whatever its active_length.
C7_AtBoundRejected ==
    (pc # "idle" /\ \E c \in Ids(batch) :
                        start.ctx[c].current_length >= MaxSeqLen)
        => pc \in {"claim_cache_rows", "failed"}

\* the length bound of the response walk for context c
LengthBound(c) ==
    upper_bounded_default(MaxSeqLen, start.ctx[c].max_length).value

HasEos(row) == \E t \in DOMAIN row : row[t] \in EosTokenIds

\* C8 (as stated): one context, no EOS token sampled, more steps asked for
\* than there is room under the length bound: the step count is clamped to
\* that room, that many tokens are written, and the status is
\* MAXIMUM_LENGTH.
C8_SingleContextClamp ==
    (/\ pc = "done"
     /\ Len(batch) = 1
     /\ ~HasEos(generated_tokens_host[1])
     /\ LengthBound(batch[1]) - start.ctx[batch[1]].current_length >= 1
     /\ requested > LengthBound(batch[1]) - start.ctx[batch[1]].current_length)
    => LET room == LengthBound(batch[1]) - start.ctx[batch[1]].current_length
       IN  /\ num_steps = room
           /\ Len(Updates(batch[1])) = room
           /\ res[batch[1]].status = MAXIMUM_LENGTH

\* step t of row j is terminal: an EOS token, or the token that brings
\* current_length to the length bound
Terminal(j, t) ==
    \/ generated_tokens_host[j][t] \in EosTokenIds
    \/ start.ctx[batch[j]].current_length + t = LengthBound(batch[j])
\* the step of row j's first terminal token; num_steps when there is none
FirstTerminal(j) ==
    IF \E t \in 1..num_steps : Terminal(j, t)
    THEN MinOf({t \in 1..num_steps : Terminal(j, t)})
    ELSE num_steps
\* the walk of batch index j is over
Walked(j) ==
    \/ pc = "done"
    \/ j < k
    \/ j = k /\ pc = "outstanding"

\* C9: in the response walk a context receives context.update for its row
\* of the generated tokens in step order, up to and including its first
\* terminal token and for no later step; the buffer is not modified; a
\* context whose first terminal token is an EOS token at step t gets
\* exactly t new tokens and status END_OF_SEQUENCE.
C9_WalkStopsAtFirstTerminal ==
    InResponse =>
        /\ generated_tokens_host = generated_tokens
        /\ \A j \in DOMAIN batch :
              LET u == Updates(batch[j])
                  ft == FirstTerminal(j)
              IN  /\ Len(generated_tokens_host[j]) = IF num_steps > 0 THEN num_steps ELSE 0
                  /\ Len(u) <= ft
                  /\ \A t \in DOMAIN u : u[t] = generated_tokens_host[j][t]
                  /\ (Walked(j) /\ pc # "failed") => Len(u) = ft
                  /\ (pc = "done" /\ ft >= 1) =>
                        /\ res[batch[j]].tokens =
                              start.ctx[batch[j]].outstanding \o u
                        /\ generated_tokens_host[j][ft] \in EosTokenIds
                              => res[batch[j]].status = END_OF_SEQUENCE

\* EOS at step 2 of a 3-step run, beside a context that takes all 3 steps
C9_Witness ==
    /\ pc = "done"
    /\ Len(batch) = 2
    /\ num_steps = 3
    /\ \E j \in DOMAIN batch :
          /\ FirstTerminal(j) = 2
          /\ generated_tokens_host[j][2] \in EosTokenIds
          /\ generated_tokens_host[j][1] \notin EosTokenIds
          /\ Len(Updates(batch[j])) = 2
          /\ res[batch[j]].status = END_OF_SEQUENCE
          /\ \E h \in DOMAIN batch : h # j /\ Len(Updates(batch[h])) = 3

\* C10: two runs of next_token on the same batch that differ only in the
\* tokens sampled for one context give the same clamped step count, the
\* same number of model executions, and the same tokens, status and
\* context updates for every other context.
C10_OthersUndisturbed ==
    (mode = "replay" /\ pc = "done") =>
        /\ num_steps = saved.num_steps
        /\ Count("execute") = saved.executes
        /\ \A c \in Ids(batch) \ {saved.other} :
              /\ res[c] = saved.res[c]
              /\ ctx[c] = saved.ctx[c]
              /\ SelectSeq(trace, LAMBDA e : e.op = "update" /\ e.ids = {c})
                    = saved.updates[c]

\* the differing context came first in the batch, ended on EOS after one
\* token in the first run and ran through all three steps in the second
C10_Witness ==
    /\ mode = "replay"
    /\ pc = "done"
    /\ batch[1] = saved.other
    /\ num_steps = 3
    /\ saved.other_status = END_OF_SEQUENCE
    /\ saved.other_tokens = 1
    /\ Len(res[saved.other].tokens) = 3
    /\ \E c \in Ids(batch) \ {saved.other} : Len(res[c].tokens) >= 2

\* C11: no step of next_token (prepare_batch included) releases a cache id,
\* whatever status the call reports and however the call ends; the claimed
\* ids change to fewer only by release(context), which takes away exactly
\* one id, one that was claimed, and leaves every other claim as it was.
C11_ReleaseOnlyExplicit ==
    [][/\ pc # "idle" => claimed \subseteq claimed'
       /\ ~(claimed \subseteq claimed') =>
             /\ pc = "idle" /\ pc' = "idle"
             /\ \E c \in claimed : claimed' = claimed \ {c}
             /\ ctx' = ctx]_vars

\* a context claimed by an earlier call gets a terminal status and is still
\* claimed when the call returns, beside another claimed context
C11_Witness ==
    /\ pc = "done"
    /\ \E c \in Ids(batch) :
          /\ c \in start.claimed
          /\ is_done(res[c].status)
          /\ c \in claimed
    /\ Cardinality(claimed) = 2

NoneStructured ==
    \A c \in Ids(batch) :
        /\ start.ctx[c].json_schema = NoSchema
        /\ start.ctx[c].matcher = NoMatcher

\* C13 (as stated): when no context of the batch asks for structured
\* output, the bitmask prepare_batch returns and the one the sampler gets
\* at every step is None, also when structured output is enabled in the
\* sampling configuration.
C13_NoBitmaskWithoutRequest ==
    (Prepared /\ NoneStructured) => ~bitmask.present

\* the batch indices whose context had a json_schema and no matcher when
\* the call began
Unmatched ==
    {j \in DOMAIN batch : /\ start.ctx[batch[j]].json_schema # NoSchema
                          /\ start.ctx[batch[j]].matcher = NoMatcher}

\* C14: with structured output disabled, a batch in which a context has a
\* json_schema and no matcher never gets through prepare_batch: the loop
\* stops at the first such context with the ValueError of the schema
\* check, unless an earlier context stopped it with the length error. When
\* the schema error is raised, that context has not been claimed by this
\* call, and the call has made no fetch and no execute (nothing but the
\* claims of the contexts before it).
C14_SchemaWhileDisabledRaises ==
    (pc # "idle" /\ ~config.enable_structured_output /\ Unmatched # {}) =>
        LET first == MinOf(Unmatched)
        IN  /\ pc \in {"claim_cache_rows", "failed"}
            /\ \A j \in DOMAIN trace :
                  /\ trace[j].op = "external_claim"
                  /\ trace[j].ids # {batch[first]}
            /\ pc = "claim_cache_rows" => k <= first
            /\ pc = "failed" =>
                  \/ /\ k = first
                     /\ raised.type = "ValueError"
                     /\ raised.site = "json_schema"
                     /\ raised.id = batch[first]
                     /\ batch[first] \in claimed => batch[first] \in start.claimed
                     /\ ctx = start.ctx
                  \/ /\ k < first
                     /\ raised.site = "calculate_num_steps"

\* the second context of the batch carries the schema; the first has been
\* claimed by this call, the second has not
C14_Witness ==
    /\ pc = "failed"
    /\ raised.site = "json_schema"
    /\ Len(batch) = 2
    /\ raised.id = batch[2]
    /\ batch[1] \in claimed \ start.claimed
    /\ batch[2] \notin claimed

\* context c, as the call began, has no configuration error of its own: it
\* has room for a step, and no json_schema that structured output being
\* disabled would reject
Healthy(c) ==
    /\ AvailableSteps(c) > 0
    /\ ~schema_rejected(config.enable_structured_output, start.ctx[c])
ConfigurationError ==
    pc = "failed" /\ raised.site \in {"calculate_num_steps", "json_schema"}

\* C15 (as stated): when a call meets a configuration error in one context,
\* the contexts of the batch without such an error are still fetched and
\* answered.
C15_ErrorSparesTheBatch ==
    ConfigurationError =>
        \A c \in Ids(batch) :
            Healthy(c) => (Count("fetch") = 1 /\ c \in DOMAIN res)

\* C15 (amended): a configuration error ends the whole next_token call at
\* the first offending context of the batch: the contexts before it have
\* no configuration error, no context of the batch is answered, and the
\* call makes no fetch, execute, sample, host copy, step or context.update.
C15_ConfigErrorEndsCall ==
    ConfigurationError =>
        /\ raised.type = "ValueError"
        /\ raised.id = batch[k]
        /\ ~Healthy(batch[k])
        /\ \A j \in 1..(k - 1) : Healthy(batch[j])
        /\ res = << >>
        /\ \A j \in DOMAIN trace :
              trace[j].op \notin {"fetch", "execute", "sample", "to_numpy",
                                  "step", "update"}

\* the first context has no room, the second is in order and is not even
\* claimed
C15_Witness ==
    /\ ConfigurationError
    /\ raised.site = "calculate_num_steps"
    /\ Len(batch) = 2
    /\ raised.id = batch[1]
    /\ Healthy(batch[2])
    /\ batch[2] \notin claimed

\* the loop of prepare_batch has finished the iteration of batch index j
\* without raising
Iterated(j) ==
    \/ StepsFixed
    \/ pc = "claim_cache_rows" /\ j < k
    \/ pc = "failed" /\ j < k
          /\ raised.site \in {"calculate_num_steps", "json_schema"}
\* the iteration of batch index j has got past the compilation
Compiled(j) ==
    \/ Iterated(j)
    \/ pc = "failed" /\ raised.site = "calculate_num_steps" /\ j = k
\* the context at batch index j came with a schema that does not compile
Failing(j) ==
    /\ start.ctx[batch[j]].json_schema = "invalid"
    /\ start.ctx[batch[j]].matcher = NoMatcher

\* C16: with structured output enabled, a context whose schema does not
\* compile does not stop prepare_batch: the failed compilation is followed
\* by a warning and by nothing else for that context, its json_schema is
\* cleared and it has no matcher, and the call never fails for it. Row j of
\* the bitmask is the row filled by the matcher of the context at batch
\* index j when that context has a matcher, and the permissive row
\* otherwise, whatever the other contexts' schemas did; so a failing
\* context's row is permissive.
C16_CompileFailureIsLocal ==
    (pc # "idle" /\ config.enable_structured_output) =>
        /\ pc = "failed" => raised.site # "json_schema"
        /\ \A j \in DOMAIN batch :
              LET c == batch[j]
              IN  /\ (Failing(j) /\ Compiled(j)) =>
                        /\ ctx[c].json_schema = NoSchema
                        /\ ctx[c].matcher = NoMatcher
                        /\ \E t \in DOMAIN trace :
                              /\ trace[t] = Event("compile_json_schema", {c},
                                                  FALSE, 0)
                              /\ t + 1 \in DOMAIN trace
                              /\ trace[t + 1] = Event("warning", {c}, TRUE, 0)
                        /\ Iterated(j) => bitmask.rows[j] = Permissive
                  /\ bitmask.present
                  /\ bitmask.rows[j] =
                        IF Iterated(j) /\ ctx[c].matcher # NoMatcher
                        THEN c ELSE Permissive

\* the first context's schema fails to compile, the second's compiles: the
\* call returns, and only the second row is the second context's
C16_Witness ==
    /\ pc = "done"
    /\ config.enable_structured_output
    /\ Len(batch) = 2
    /\ Failing(1)
    /\ start.ctx[batch[2]].json_schema = "valid"
    /\ start.ctx[batch[2]].matcher = NoMatcher
    /\ bitmask.rows = <<Permissive, batch[2]>>
    /\ Count("warning") = 1
    /\ Len(res[batch[1]].tokens) = 1

\* C17: over all the next_token calls made on a context, its schema is
\* compiled at most once: a context whose schema has been compiled has a
\* matcher or no schema any more, so prepare_batch does not compile for it
\* again.
C17_CompiledAtMostOnce ==
    \A c \in Contexts :
        /\ history.compiles[c] <= 1
        /\ history.compiles[c] = 1 => ~needs_matcher(ctx[c])
        /\ Cardinality({j \in DOMAIN trace :
                           /\ trace[j].op = "compile_json_schema"
                           /\ trace[j].ids = {c}}) <= history.compiles[c]

\* a later call on two contexts whose schemas were compiled by earlier
\* calls, one with success and one without: it returns without compiling
C17_Witness ==
    /\ pc = "done"
    /\ Len(batch) = 2
    /\ Count("compile_json_schema") = 0
    /\ \A c \in Ids(batch) : history.compiles[c] = 1
    /\ \E c \in Ids(batch) : start.ctx[c].matcher = GrammarMatcher
    /\ \E c \in Ids(batch) :
          /\ start.ctx[c].matcher = NoMatcher
          /\ start.ctx[c].json_schema = NoSchema
    /\ num_steps >= 1

\* the bump_token_indices calls the running call made on context c
BumpsOf(c) ==
    SelectSeq(trace, LAMBDA e : e.op = "bump_token_indices" /\ e.ids = {c})

\* C18: once prepare_batch has returned, for every context of the batch the
\* untrimmed length is the active_length the context had before fetch, and
\* with k = untrimmed length - length of its entry after fetch:
\* bump_token_indices was called on it once with start_idx = k when k > 0
\* and not at all when k = 0, after the fetch; so trimmed length + bump
\* amount = original pending length, and until the response walk touches
\* the context its pending tokens are the trimmed entry and its
\* current_length is what it was.
C18_TrimRoundTrip ==
    Prepared =>
        \A c \in Ids(batch) :
            LET untrimmed == seq_ids_and_untrimmed_lengths[c]
                trimmed == seq_ids_and_prompts[c]
                bumps == BumpsOf(c)
            IN  /\ untrimmed = start.ctx[c].active_length
                /\ trimmed <= untrimmed
                /\ Len(bumps) = IF untrimmed - trimmed > 0 THEN 1 ELSE 0
                /\ \A t \in DOMAIN bumps :
                      /\ bumps[t].arg = untrimmed - trimmed
                      /\ trimmed + bumps[t].arg = untrimmed
                /\ Before("fetch", "bump_token_indices")
                /\ Len(Updates(c)) = 0 =>
                      /\ ctx[c].active_length = trimmed
                      /\ ctx[c].current_length = start.ctx[c].current_length

\* two contexts with two pending tokens each: fetch trims one token of the
\* first and nothing of the second
C18_Witness ==
    /\ pc = "execute"
    /\ i = 0
    /\ Len(batch) = 2
    /\ seq_ids_and_untrimmed_lengths[batch[1]] = 2
    /\ seq_ids_and_prompts[batch[1]] = 1
    /\ Len(BumpsOf(batch[1])) = 1
    /\ seq_ids_and_untrimmed_lengths[batch[2]] = 2
    /\ seq_ids_and_prompts[batch[2]] = 2
    /\ Len(BumpsOf(batch[2])) = 0

\* the calls of the multi-step loop
LoopOps == {"execute", "sample", "compute_log_probabilities",
            "increment_cache_lengths", "prepare_next_token_inputs"}
LoopTrace == SelectSeq(trace, LAMBDA e : e.op \in LoopOps)
\* the loop of the running call is over
LoopDone == pc \in {"to_numpy", "kv_manager_step"} \/ InResponse
\* a context of the batch asks for log-probabilities
WantsLogProbabilities ==
    \E c \in Ids(batch) : start.ctx[c].log_probabilities # 0
\* call b may directly follow call a in the loop
Follows(a, b) ==
    CASE a.op = "execute" -> b.op = "sample" /\ b.arg = a.arg
      [] a.op = "sample" ->
            /\ b.arg = a.arg
            /\ b.op = IF WantsLogProbabilities
                      THEN "compute_log_probabilities"
                      ELSE "increment_cache_lengths"
      [] a.op = "compute_log_probabilities" ->
            b.op = "increment_cache_lengths" /\ b.arg = a.arg
      [] a.op = "increment_cache_lengths" ->
            b.op = "prepare_next_token_inputs" /\ b.arg = a.arg
      [] a.op = "prepare_next_token_inputs" ->
            b.op = "execute" /\ b.arg = a.arg + 1

\* C19: the loop's calls come in the order execute(i), sample(i),
\* log-probabilities(i) when a context asks for them, increment(i),
\* prepare_next(i), execute(i+1), from step 0 on and for steps below the
\* clamped step count n only; when the loop is over and n >= 1 there have
\* been n executes, n samples, n-1 increments and n-1 prepare_next, the
\* last call being the sample (or log-probabilities) of step n-1; and the
\* inputs a step i >= 1 executes on are those prepared from the tokens
\* sampled at step i-1.
C19_LoopOrder ==
    LET L == LoopTrace
    IN  /\ L # << >> => (L[1].op = "execute" /\ L[1].arg = 0)
        /\ \A t \in DOMAIN L :
              /\ L[t].arg \in 0..(num_steps - 1)
              /\ t < Len(L) => Follows(L[t], L[t + 1])
        /\ (LoopDone /\ num_steps >= 1) =>
              /\ Count("execute") = num_steps
              /\ Count("sample") = num_steps
              /\ Count("increment_cache_lengths") = num_steps - 1
              /\ Count("prepare_next_token_inputs") = num_steps - 1
              /\ Count("compute_log_probabilities") =
                    IF WantsLogProbabilities THEN num_steps ELSE 0
              /\ L[Len(L)].arg = num_steps - 1
              /\ L[Len(L)].op = IF WantsLogProbabilities
                                THEN "compute_log_probabilities" ELSE "sample"
        /\ pc \in {"execute", "sample_next_token"} =>
              /\ curr_step_inputs.step = i
              /\ curr_step_inputs.tokens =
                    IF i = 0 THEN << >>
                    ELSE [j \in DOMAIN batch |-> generated_tokens[j][i]]

\* a three-step run of two contexts with log-probabilities, at the end of
\* the loop
C19_Witness ==
    /\ pc = "to_numpy"
    /\ num_steps = 3
    /\ Len(batch) = 2
    /\ WantsLogProbabilities
    /\ Count("execute") = 3
    /\ Count("compute_log_probabilities") = 3
    /\ Count("prepare_next_token_inputs") = 2

\* C20: a call copies the generated-token buffer to host at most once, and
\* a call that gets as far as kv_manager.step, the response building or its
\* return has copied it exactly once; the copy comes after every call of
\* the loop, when all num_steps steps have been sampled, and before
\* kv_manager.step and before the first context.update and response entry;
\* the copy holds the whole buffer.
C20_OneHostCopy ==
    LET copies == Pos("to_numpy")
    IN  /\ Cardinality(copies) <= 1
        /\ (pc = "kv_manager_step" \/ InResponse \/ res # << >>)
              => copies # {}
        /\ \A j \in DOMAIN trace :
              trace[j].op \in {"step", "update"} => \E p \in copies : p < j
        /\ \A p \in copies :
              /\ \A j \in DOMAIN trace :
                    j > p => trace[j].op \notin LoopOps
              /\ Count("sample") = IF num_steps > 0 THEN num_steps ELSE 0
              /\ generated_tokens_host = generated_tokens
              /\ \A j \in DOMAIN batch :
                    Len(generated_tokens_host[j]) = Count("sample")

\* a returned two-step call on two contexts
C20_Witness ==
    /\ pc = "done"
    /\ Len(batch) = 2
    /\ num_steps = 2
    /\ Count("to_numpy") = 1
    /\ Count("step") = 1
    /\ \A c \in Ids(batch) : Len(Updates(c)) >= 1

\* --------------------------------------------------------------------
\* the calls that copy a device value to the host
HostCopies == HostReads \cup {"to_numpy"}

\* C21: no value produced on the device (logits, sampled tokens, the
\* generated-token buffer, the device-resident inputs) is read on the host
\* before the multi-step loop is over: no call of the loop comes after a
\* host copy, log-probabilities computed by the Llama executor included.
C21_NoHostReadInLoop ==
    \A j \in DOMAIN trace :
        trace[j].op \in HostCopies =>
            \A t \in DOMAIN trace : t > j => trace[t].op \notin LoopOps

\* the executor of the running call raises NotImplementedError from
\* compute_log_probabilities, and a context of the batch asks for them
Unsupported == WantsLogProbabilities /\ ~config.log_probabilities_supported

\* C22: when a context asks for log-probabilities and the executor raises
\* NotImplementedError, every attempt is followed by a warning and a None
\* entry, batch_log_probabilities holds one entry per executed step, the
\* call does not fail once prepare_batch has returned, the loop runs its num_steps steps and the response
\* carries the tokens without log-probabilities.
C22_UnsupportedIsNone ==
    (Prepared /\ Unsupported) =>
        /\ pc # "failed"
        /\ \A j \in Pos("compute_log_probabilities") :
              /\ ~trace[j].ok
              /\ j < Len(trace)
              /\ trace[j + 1] = Event("warning", {}, TRUE, trace[j].arg)
        /\ Len(batch_log_probabilities) = Count("sample")
        /\ Count("compute_log_probabilities") = Count("sample")
        /\ \A t \in DOMAIN batch_log_probabilities :
              ~batch_log_probabilities[t]
        /\ LoopDone => Count("sample") = num_steps
        /\ pc = "done" =>
              \A c \in Ids(batch) :
                  /\ Len(res[c].tokens) = Len(Updates(c))
                  /\ Len(res[c].log_probabilities) = Len(res[c].tokens)
                  /\ \A t \in DOMAIN res[c].log_probabilities :
                        ~res[c].log_probabilities[t]
C22_Witness ==
    /\ pc = "done"
    /\ Unsupported
    /\ num_steps = 2
    /\ Count("warning") = 2
    /\ \E c \in Ids(batch) :
          /\ start.ctx[c].log_probabilities # 0
          /\ Len(res[c].tokens) = 2

\* C23: once compute_log_probabilities has been found unsupported by the
\* executor, it is not attempted again: no later step of the call invokes
\* it after an attempt that raised NotImplementedError.
C23_NotReattempted ==
    \A j \in Pos("compute_log_probabilities") :
        ~trace[j].ok =>
            \A t \in Pos("compute_log_probabilities") : t <= j

\* position in the batch of context c
IndexOf(c) == CHOOSE j \in DOMAIN batch : batch[j] = c

\* C24: in a call that returns, kv_manager.step is invoked exactly once,
\* after the host copy and before any context.update, with one entry per
\* context of the batch, and the entry of a context holds exactly the tokens
\* the context received in this call (for a context that terminated before
\* the last step, the tokens up to and including its terminal token).
C24_StepCommitsReceived ==
    pc = "done" =>
        /\ Count("step") = 1
        /\ Before("to_numpy", "step")
        /\ Before("step", "update")
        /\ DOMAIN seq_ids_and_new_tokens = Ids(batch)
        /\ \A c \in Ids(batch) : seq_ids_and_new_tokens[c] = Updates(c)

\* the status that goes with the last token context c received in the call
StatusOfLast(c) ==
    LET u == Updates(c)
    IN  IF u = << >> THEN ACTIVE
        ELSE IF u[Len(u)] \in EosTokenIds THEN END_OF_SEQUENCE
        ELSE IF ctx[c].current_length = LengthBound(c) THEN MAXIMUM_LENGTH
        ELSE ACTIVE

\* C25: the status returned for a request is one of ACTIVE, END_OF_SEQUENCE,
\* MAXIMUM_LENGTH and is determined by the last token written in the call:
\* END_OF_SEQUENCE iff it is an EOS token (also when it reaches the length
\* bound), MAXIMUM_LENGTH iff it is no EOS token and current_length after
\* it equals the length bound, ACTIVE otherwise and when no step was run.
C25_StatusOfLastToken ==
    pc = "done" =>
        \A c \in Ids(batch) :
            /\ res[c].status \in {ACTIVE, END_OF_SEQUENCE, MAXIMUM_LENGTH}
            /\ res[c].status = StatusOfLast(c)
\* an EOS token that reaches the bound, a plain token that reaches it, and
\* a context that stays active, in one call
C25_Witness ==
    /\ pc = "done"
    /\ \E c \in Ids(batch) :
          /\ res[c].status = END_OF_SEQUENCE
          /\ ctx[c].current_length = LengthBound(c)
    /\ \E c \in Ids(batch) :
          /\ res[c].status = MAXIMUM_LENGTH
          /\ Len(Updates(c)) = 1
          /\ num_steps = 2

\* C26: the length bound that finalization compares with current_length is
\* the bound that clamped the step count in preparation, a context's own
\* max_length below the model's maximum sequence length included: the
\* steps of the call fit below the finalization bound of every context as
\* they fit below max_seq_len.
C26_FinalBoundClampedSteps ==
    StepsFixed =>
        \A c \in Ids(batch) :
            ~upper_bounded_default(MaxSeqLen, start.ctx[c].max_length).raises
            => num_steps <= LengthBound(c) - (start.ctx[c].current_length
                                              - start.ctx[c].active_length)

JumpsOf(c) ==
    Cardinality({j \in DOMAIN trace :
                    trace[j].op = "jump_ahead" /\ trace[j].ids = {c}})

\* C28: the tokens of a forced jump-forward continuation are appended to
\* the context through jump_ahead before its pending tokens and its active
\* length are captured and before the step count is clamped: the entry
\* given to fetch and the untrimmed length include them, every jump_ahead
\* precedes fetch, the steps fit the context as it is after the jump, and
\* the context's length grows by them besides the sampled tokens it
\* receives, the rows of the sampler holding one token per sample call.
C28_JumpBeforeCapture ==
    /\ \A j \in DOMAIN trace :
          trace[j].op = "jump_ahead" =>
              \A t \in 1..j : trace[t].op \notin {"fetch", "sample"}
    /\ \A c \in DOMAIN seq_ids_and_untrimmed_lengths :
          LET jumps == JumpsOf(c)
              updates == Cardinality({j \in DOMAIN trace :
                                         IsUpdateOf(c, trace[j])})
          IN  /\ seq_ids_and_untrimmed_lengths[c] =
                    start.ctx[c].active_length + jumps
              /\ seq_ids_and_prompts[c] = start.ctx[c].active_length + jumps
              /\ ctx[c].current_length =
                    start.ctx[c].current_length + jumps + updates
    /\ StepsFixed =>
          /\ \A c \in Ids(batch) :
                num_steps <= MaxSeqLen - (start.ctx[c].current_length
                                          - start.ctx[c].active_length)
          /\ \A j \in DOMAIN generated_tokens :
                Len(generated_tokens[j]) = Count("sample")
\* a context that was given a forced token and then a sampled one
C28_Witness ==
    /\ pc = "done"
    /\ \E c \in Ids(batch) :
          /\ JumpsOf(c) = 1
          /\ seq_ids_and_untrimmed_lengths[c] = 2
          /\ Len(Updates(c)) = 1
          /\ ctx[c].current_length = start.ctx[c].current_length + 2

\* the calls execution e has made, as positions of the trace
CallsOf(e) == {j \in DOMAIN trace : trace[j].arg = e}
\* execution e's call just before its call at position j
Previous(e, j) ==
    CHOOSE p \in CallsOf(e) :
        p < j /\ \A q \in CallsOf(e) : q < j => q <= p

\* C29: nothing is held between the contains check and the claim. Every
\* external_claim of an execution directly follows, among its own calls,
\* its contains check of that id answered false; an external_claim for an
\* id that already holds a slot happens only when another execution has
\* claimed the id between that check and the claim, so with one driver a
\* double claim is unreachable.
C29_ClaimAfterOwnCheck ==
    \A j \in Pos("external_claim") :
        LET e == trace[j].arg
            c == trace[j].ids
        IN  /\ \E p \in CallsOf(e) : p < j
            /\ trace[Previous(e, j)] = Event("contains", c, FALSE, e)
            /\ ~trace[j].ok =>
                  \E t \in Pos("external_claim") :
                      /\ Previous(e, j) < t
                      /\ t < j
                      /\ trace[t].ids = c
                      /\ trace[t].arg # e
\* two executions whose batches share an id both saw contains(id) = false
\* and both invoked external_claim for it
C29_Witness ==
    \E j \in Pos("external_claim"), t \in Pos("external_claim") :
        /\ t < j
        /\ trace[t].ids = trace[j].ids
        /\ trace[t].arg # trace[j].arg
        /\ trace[t].ok
        /\ ~trace[j].ok

\* C30: upper_bounded_default(upper_bound, default) returns upper_bound
\* when default is None, returns default when default <= upper_bound, and
\* raises ValueError when default > upper_bound; a returned value is never
\* above upper_bound.
C30_UpperBoundedDefault ==
    evaluation.applied =>
        LET upper_bound == evaluation.upper_bound
            default == evaluation.default
            result == evaluation.result
        IN  /\ default = None =>
                  ~result.raises /\ result.value = upper_bound
            /\ (default # None /\ default[1] <= upper_bound) =>
                  ~result.raises /\ result.value = default[1]
            /\ (default # None /\ default[1] > upper_bound) => result.raises
            /\ ~result.raises => result.value <= upper_bound
\* the default equal to the upper bound is returned
C30_Witness ==
    /\ evaluation.applied
    /\ evaluation.default = Some(evaluation.upper_bound)
    /\ evaluation.upper_bound = MaxBound
    /\ ~evaluation.result.raises
    /\ evaluation.result.value = MaxBound

\* C31: with a bitmask active the sampler receives at every step the
\* boolean mask obtained by expanding once the packed bitmask that
\* prepare_batch filled: the expansion is never applied to a mask that is
\* already expanded, so it neither fails nor yields another mask at a
\* later step.
C31_MaskExpandedOnce ==
    /\ (pc = "sample_next_token" /\ bitmask.present) => bitmask.form = "bool"
    /\ ~(pc = "failed" /\ raised.site = "bitmask_expansion")

\* the call failed in prepare_next_token_inputs
PaddedFailure ==
    pc = "failed" /\ raised.site = "prepare_next_token_inputs"

\* C32: with the Llama executor and a padded KV cache strategy a call whose
\* clamped step count is at least 2 fails with ValueError in
\* prepare_next_token_inputs after exactly one execute, sample and
\* increment_cache_lengths, without host copy, kv_manager.step,
\* context.update or response; a call with a smaller step count never
\* invokes prepare_next_token_inputs and is the only kind that returns.
C32_PaddedMultistepFails ==
    /\ PaddedFailure =>
          /\ num_steps >= 2
          /\ raised.type = "ValueError"
          /\ [t \in DOMAIN LoopTrace |-> LoopTrace[t].op] =
                <<"execute", "sample", "increment_cache_lengths",
                  "prepare_next_token_inputs">>
          /\ Count("to_numpy") = 0
          /\ Count("step") = 0
          /\ Count("update") = 0
          /\ res = << >>
          /\ \A c \in Ids(batch) :
                ctx[c].current_length = start.ctx[c].current_length
    /\ (StepsFixed /\ num_steps >= 2) =>
          /\ pc \notin {"to_numpy", "kv_manager_step", "prepare_response",
                        "walk", "outstanding", "done"}
          /\ Count("execute") <= 1
    /\ (StepsFixed /\ num_steps < 2) =>
          /\ Count("prepare_next_token_inputs") = 0
          /\ pc # "failed"
C32_Witness ==
    /\ PaddedFailure
    /\ requested = MaxReq
    /\ num_steps = 2
    /\ Len(batch) = 2
    /\ Count("increment_cache_lengths") = 1

\* C33: after construction the EOS id set contains the eos_token_id given
\* to the constructor, whatever huggingface_config holds for eos_token_id.
C33_ProvidedEosInSet ==
    evaluation.applied =>
        evaluation.eos_token_id \in evaluation.result.eos_token_id

\* the Llama executor is asked for log-probabilities with echo and has no
\* full logits to compute them from
EchoWithoutLogits ==
    /\ WantsLogProbabilities
    /\ config.log_probabilities_supported
    /\ \E c \in Ids(batch) : start.ctx[c].log_probabilities_echo
    /\ ~config.returns_logits

\* C34: when a context of the batch asks for echo and the Llama executor
\* returned no full logits, then in a call that runs a step without enable_echo every attempt logs a
\* warning and yields None for the whole step, no value is read on the
\* host, the call goes on and no row of the response carries
\* log-probabilities; with enable_echo the first attempt is an assertion
\* failure that ends the call: no further step, no host copy, no
\* kv_manager.step, no update, no response.
C34_EchoWithoutLogits ==
    (Prepared /\ EchoWithoutLogits /\ num_steps >= 1) =>
        IF config.enable_echo
        THEN /\ pc \in {"execute", "sample_next_token", "failed"}
             /\ batch_log_probabilities = << >>
             /\ Count("execute") <= 1
             /\ Count("step") = 0
             /\ Count("update") = 0
             /\ res = << >>
             /\ pc = "failed" =>
                   /\ raised.type = "AssertionError"
                   /\ raised.site = "compute_log_probabilities"
                   /\ Count("warning") = 1
        ELSE /\ pc # "failed"
             /\ \A j \in Pos("compute_log_probabilities") :
                   /\ j < Len(trace)
                   /\ trace[j + 1] = Event("warning", {}, TRUE, trace[j].arg)
             /\ \A j \in DOMAIN trace : trace[j].op \notin HostReads
             /\ Len(batch_log_probabilities) = Count("sample")
             /\ \A t \in DOMAIN batch_log_probabilities :
                   ~batch_log_probabilities[t]
             /\ pc = "done" =>
                   \A c \in Ids(batch) :
                       /\ Len(res[c].log_probabilities) = Len(res[c].tokens)
                       /\ \A t \in DOMAIN res[c].log_probabilities :
                             ~res[c].log_probabilities[t]
\* the degraded call returns two tokens without log-probabilities to a
\* context that asked for them without echo, beside one that asked for echo
C34_Witness ==
    /\ pc = "done"
    /\ EchoWithoutLogits
    /\ ~config.enable_echo
    /\ Count("warning") = 2
    /\ \E c \in Ids(batch) :
          /\ start.ctx[c].log_probabilities # 0
          /\ ~start.ctx[c].log_probabilities_echo
          /\ Len(res[c].tokens) = 2

\* C35: when a call returns, no context of the batch has a current_length
\* above the length bound used for MAXIMUM_LENGTH, and a context that
\* received a token and whose current_length has reached or passed the
\* bound is not reported ACTIVE.
C35_LengthWithinBound ==
    pc = "done" =>
        \A c \in Ids(batch) :
            /\ ctx[c].current_length <= LengthBound(c)
            /\ (Updates(c) # << >> /\ ctx[c].current_length >= LengthBound(c))
               => res[c].status # ACTIVE

\* position in the batch at which prepare_batch raised
FailedAt == IndexOf(raised.id)
\* prepare_batch raised
PrepareFailure ==
    pc = "failed" /\ raised.site \in {"json_schema", "calculate_num_steps"}

\* C36: a failed prepare_batch is not rolled back. When it raises for the
\* context at batch position k, the contexts before k, and context k when
\* the error is the length error, hold a slot; what the loop did to the
\* contexts up to the error (matcher set, forced tokens appended) is
\* still on them; the contexts after k are untouched; and the call issued
\* no fetch, execute, sample, kv_manager.step, update or release.
C36_NoRollback ==
    PrepareFailure =>
        /\ FailedAt = k
        /\ \A j \in 1..(k - 1) : batch[j] \in claimed
        /\ raised.site = "calculate_num_steps" => batch[k] \in claimed
        /\ raised.site = "json_schema" =>
              /\ ctx[batch[k]] = start.ctx[batch[k]]
              /\ (batch[k] \in claimed <=> batch[k] \in start.claimed)
        /\ start.claimed \subseteq claimed
        /\ \A j \in DOMAIN batch :
              LET c == batch[j]
              IN  /\ (j > k) => ctx[c] = start.ctx[c] /\ ClaimsOf(c) = 0
                  /\ (needs_matcher(start.ctx[c])
                        /\ compile_json_schema(start.ctx[c].json_schema)
                        /\ (j < k \/ (j = k /\ raised.site = "calculate_num_steps")))
                     => ctx[c].matcher = GrammarMatcher
                  /\ ctx[c].current_length =
                        start.ctx[c].current_length + JumpsOf(c)
                  /\ ctx[c].active_length =
                        start.ctx[c].active_length + JumpsOf(c)
        /\ \A j \in DOMAIN trace :
              trace[j].op \in {"compile_json_schema", "warning", "jump_ahead",
                               "external_claim", "fill_next_token_bitmask"}
        /\ res = << >>
\* the length error at the second context, after the first was given a
\* matcher, a forced token and a slot, and the second a slot
C36_Witness ==
    /\ PrepareFailure
    /\ raised.site = "calculate_num_steps"
    /\ k = 2
    /\ ctx[batch[1]].matcher = GrammarMatcher
    /\ JumpsOf(batch[1]) = 1
    /\ ClaimsOf(batch[1]) = 1
    /\ ClaimsOf(batch[2]) = 1

\* the context's own max_length is above the model's maximum sequence length
Oversized(c) ==
    /\ start.ctx[c].max_length # None
    /\ start.ctx[c].max_length[1] > MaxSeqLen
\* the call failed in the response walk
WalkFailure == pc = "failed" /\ raised.site = "upper_bounded_default"

\* C37: for a context whose max_length is above the model's maximum
\* sequence length next_token raises ValueError from upper_bounded_default
\* in the walk: after the host copy and the one kv_manager.step, after
\* every earlier request of the batch was walked to its end and drained,
\* and after context.update wrote the context's first generated token,
\* which stays queued in it; later requests are not updated and no call
\* with such a context and a step returns, while with num_steps = 0 the
\* error is not raised.
C37_LateLengthError ==
    /\ WalkFailure =>
          /\ raised.type = "ValueError"
          /\ raised.id = batch[k]
          /\ Oversized(batch[k])
          /\ num_steps >= 1
          /\ Count("to_numpy") = 1
          /\ Count("step") = 1
          /\ Before("step", "update")
          /\ seq_ids_and_new_tokens[batch[k]] = generated_tokens_host[k]
          /\ Updates(batch[k]) = <<generated_tokens_host[k][1]>>
          /\ ctx[batch[k]].current_length =
                start.ctx[batch[k]].current_length + 1
          /\ ctx[batch[k]].outstanding =
                Append(start.ctx[batch[k]].outstanding,
                       generated_tokens_host[k][1])
          /\ \A j \in 1..(k - 1) :
                /\ ~Oversized(batch[j])
                /\ Len(Updates(batch[j])) = FirstTerminal(j)
                /\ ctx[batch[j]].outstanding = << >>
          /\ \A j \in (k + 1)..Len(batch) : Updates(batch[j]) = << >>
    /\ (pc = "done" /\ \E c \in Ids(batch) : Oversized(c)) => num_steps = 0
    /\ (Prepared /\ num_steps = 0) => pc # "failed"
\* the second request of the batch is the oversized one: the first was
\* updated twice and drained, the second once
C37_Witness ==
    /\ WalkFailure
    /\ k = 2
    /\ num_steps = 2
    /\ Len(Updates(batch[1])) = 2
    /\ Len(Updates(batch[2])) = 1
    /\ ctx[batch[2]].outstanding # << >>

\* every context of the batch has room as the call begins
AllHaveRoom == \A c \in Ids(batch) : AvailableSteps(c) > 0

\* C38: when the requested num_steps is zero or negative and every context
\* has room, calculate_num_steps returns it unchanged; no execute, sample,
\* increment_cache_lengths or prepare_next_token_inputs call is made and no
\* context.update; the call does not fail, and when it returns every
\* context is claimed, fetch, the host copy and kv_manager.step were each
\* called once, in this order, step got an empty row for every context,
\* and every request is returned ACTIVE with the contexts as they were.
C38_NonPositiveSteps ==
    (pc # "idle" /\ requested <= 0 /\ AllHaveRoom) =>
        /\ pc # "failed"
        /\ Prepared => num_steps = requested
        /\ Count("execute") = 0
        /\ Count("sample") = 0
        /\ Count("increment_cache_lengths") = 0
        /\ Count("prepare_next_token_inputs") = 0
        /\ Count("update") = 0
        /\ pc = "done" =>
              /\ Ids(batch) \subseteq claimed
              /\ \A c \in Ids(batch) \ start.claimed : ClaimsOf(c) = 1
              /\ Count("fetch") = 1
              /\ Count("to_numpy") = 1
              /\ Count("step") = 1
              /\ Before("external_claim", "fetch")
              /\ Before("fetch", "to_numpy")
              /\ Before("to_numpy", "step")
              /\ DOMAIN seq_ids_and_new_tokens = Ids(batch)
              /\ \A c \in Ids(batch) :
                    /\ seq_ids_and_new_tokens[c] = << >>
                    /\ res[c].status = ACTIVE
                    /\ res[c].tokens = start.ctx[c].outstanding
              /\ DOMAIN res = Ids(batch)
              /\ ctx = [c \in Contexts |->
                          [start.ctx[c] EXCEPT !.outstanding = << >>,
                              !.outstanding_log_probabilities = << >>]]
\* a call asking for a negative number of steps returned, on a batch of
\* two with one context that received a token in an earlier call
C38_Witness ==
    /\ pc = "done"
    /\ requested < 0
    /\ Len(batch) = 2
    /\ \E c \in Ids(batch) : start.ctx[c].current_length > MaxPrompt
    /\ Count("step") = 1
    /\ \A c \in Ids(batch) : res[c].status = ACTIVE

====
